---- MODULE Spec2Model ----
(***************************************************************************)
(* A model of the containers of algo.h (cdwfs/algo): the fixed-size block  *)
(* pool allocator, the bounded stack, the ring-buffer queue, the binary    *)
(* min-heap and the adjacency-list graph.  Every public function is a pure *)
(* operator from the object's state and the call's arguments to the        *)
(* returned error code, the new state and the out-parameters; an action is *)
(* one call by a client.                                                   *)
(*                                                                         *)
(* Each container has its own specification (SpecPool, SpecStack,          *)
(* SpecQueue, SpecHeap, SpecGraph, SpecBfs, SpecDfs, SpecCtor); the        *)
(* variables of the others stay at their freshly created value.            *)
(* SpecContainers is a client that works with one of the five containers,  *)
(* whichever it chose at the start.                                        *)
(***************************************************************************)
EXTENDS Integers, Sequences, FiniteSets, Bags, TLC

VARIABLES
    pool,           \* AlgoAllocPoolImpl: elementSize, elementCount, headIndex, pool (arena address), mem
    poolHeld,       \* client ledger: the block addresses returned by Alloc and not yet freed
    poolFreeOrder,  \* client ledger: the free blocks, most recently freed first
    poolLast,       \* the last pool call: its arguments, its results, and the ledger before it
    stack,          \* AlgoStackImpl: capacity, top, nodes
    stackShadow,    \* client ledger: the elements pushed and not yet popped, oldest first
    stackLast,      \* the last stack call
    queue,          \* AlgoQueueImpl: nodeCount, capacity, head, tail, nodes
    queueShadow,    \* client ledger: the elements inserted and not yet removed, oldest first
    queueLast,      \* the last queue call
    heap,           \* AlgoHeapImpl: keyCompare, capacity, nextEmpty, nodes
    heapShadow,     \* client ledger: the bag of (key, data) pairs inserted and not yet popped
    heapLast,       \* the last heap call, and the key of the latest Pop
    graph,          \* AlgoGraphImpl, with the edge pool and the next fields of its blocks
    graphFresh,     \* client ledger: no RemoveVertex has succeeded since the graph was created
    bfs,            \* the client's AlgoGraphBfsStateImpl, and the last algoGraphBfs call on it
    dfs,            \* the client's AlgoGraphDfsStateImpl, and the algoGraphDfs calls made on it
    topo,           \* the last algoGraphTopoSort call: its arguments and results
    ctor,           \* the last ComputeBufferSize / Create call: its arguments and results
    client          \* which part of the library the client program works with

poolVars  == <<pool, poolHeld, poolFreeOrder, poolLast>>
stackVars == <<stack, stackShadow, stackLast>>
queueVars == <<queue, queueShadow, queueLast>>
heapVars  == <<heap, heapShadow, heapLast>>
graphVars == <<graph, graphFresh>>
bfsVars   == <<bfs>>
dfsVars   == <<dfs, topo>>
ctorVars  == <<ctor, client>>
vars      == <<poolVars, stackVars, queueVars, heapVars, graphVars, bfsVars, dfsVars, ctorVars>>

(***************************************************************************)
(* AlgoError                                                               *)
(***************************************************************************)
kAlgoErrorNone == 0
kAlgoErrorInvalidArgument == 1
kAlgoErrorOperationFailed == 2

\* The null pointer.  Addresses are natural numbers; no object lives at 0.
NULL == 0

(***************************************************************************)
(* Bounds of the model                                                     *)
(***************************************************************************)
\* The largest elementCount a pool is created with.
MaxElementCount == 3
\* The address of the arena's first byte (AlgoAllocPoolImpl.pool).
PoolBase == 8
\* The largest capacity a stack is created with or resized to.
MaxStackCapacity == 3
\* The largest capacity a queue is created with.
MaxQueueCapacity == 3
\* The largest capacity a heap is created with.
MaxHeapCapacity == 4
\* The largest element pushed onto a stack or inserted into a queue
\* (elements are 0..MaxData).
MaxData == 1

(***************************************************************************)
(* AlgoAllocPool                                                           *)
(***************************************************************************)

\* The element sizes a pool is created with: sizeof(int32_t) and one larger size.
ElementSizes == {4, 8}

\* What a client stores in the first 4 bytes of a block it holds.
UserWords == {-1, 0, 1}

\* algoAllocPoolCreate, for valid parameters and a large enough buffer: every
\* block is free, block i links to block i+1 and the last block to -1.
algoAllocPoolCreate(elementSize, elementCount) ==
    [ elementSize  |-> elementSize,
      elementCount |-> elementCount,
      headIndex    |-> 0,
      pool         |-> PoolBase,
      mem          |-> [i \in 0..(elementCount - 1) |->
                           IF i < elementCount - 1 THEN i + 1 ELSE -1] ]

\* The address Alloc hands out for the head block.
iPoolHeadAddress(p) == p.pool + p.headIndex * p.elementSize

\* The index of the block at address elem (elem is inside the arena).
iPoolIndexOf(p, elem) == (elem - p.pool) \div p.elementSize

\* *(int32_t*)elem: the first 4 bytes of the block at address elem.
iPoolReadWord(p, elem) == p.mem[iPoolIndexOf(p, elem)]

\* A faulty Alloc that hands out the head block and forgets to advance the head.
algoAllocPoolAllocNoAdvance(p, hasOut) ==
    IF ~hasOut
    THEN [err |-> kAlgoErrorInvalidArgument, pool |-> p, outPtr |-> NULL]
    ELSE IF p.headIndex = -1
    THEN [err |-> kAlgoErrorOperationFailed, pool |-> p, outPtr |-> NULL]
    ELSE [err |-> kAlgoErrorNone, pool |-> p, outPtr |-> iPoolHeadAddress(p)]

\* algoAllocPoolAlloc(allocPool, outPtr).  hasOut: outPtr is not NULL.  *outPtr
\* holds NULL before the call, as in the tests, and is left alone on failure.
algoAllocPoolAlloc(p, hasOut) ==
    IF ~hasOut
    THEN [err |-> kAlgoErrorInvalidArgument, pool |-> p, outPtr |-> NULL]
    ELSE IF p.headIndex = -1
    THEN [err |-> kAlgoErrorOperationFailed, pool |-> p, outPtr |-> NULL]
    ELSE [err    |-> kAlgoErrorNone,
          pool   |-> [p EXCEPT !.headIndex = iPoolReadWord(p, iPoolHeadAddress(p))],
          outPtr |-> iPoolHeadAddress(p)]

\* A faulty argument check that forgets the element boundary.
iPoolIsBlockAddressNoAlign(p, elem) ==
    /\ ~(elem < p.pool)
    /\ ~(elem >= p.pool + p.elementCount * p.elementSize)

\* The argument check of algoAllocPoolFree: elem lies in the arena on an
\* element boundary.
iPoolIsBlockAddress(p, elem) ==
    /\ ~(elem < p.pool)
    /\ ~(elem >= p.pool + p.elementCount * p.elementSize)
    /\ (elem - p.pool) % p.elementSize = 0

\* A faulty free path that makes the block the head without linking it to the
\* old head: the block keeps whatever the client wrote into it.
iPoolPushFreeNoLink(p, elem) ==
    [p EXCEPT !.headIndex = iPoolIndexOf(p, elem)]

\* A faulty free path that links the block to the head but leaves the head
\* where it was.
iPoolPushFreeKeepHead(p, elem) ==
    [p EXCEPT !.mem[iPoolIndexOf(p, elem)] = p.headIndex]

\* A faulty free path that links the freed block to itself.
iPoolPushFreeSelfLink(p, elem) ==
    [p EXCEPT !.mem[iPoolIndexOf(p, elem)] = iPoolIndexOf(p, elem),
              !.headIndex = iPoolIndexOf(p, elem)]

\* The free path of algoAllocPoolFree: link the block to the old head and make
\* it the head.
iPoolPushFree(p, elem) ==
    [p EXCEPT !.mem[iPoolIndexOf(p, elem)] = p.headIndex,
              !.headIndex = iPoolIndexOf(p, elem)]

\* A faulty Free that accepts a block and does not put it on the free list.
algoAllocPoolFreeIgnore(p, elem) ==
    IF elem = NULL
    THEN [err |-> kAlgoErrorNone, pool |-> p]
    ELSE IF ~iPoolIsBlockAddress(p, elem)
    THEN [err |-> kAlgoErrorInvalidArgument, pool |-> p]
    ELSE [err |-> kAlgoErrorNone, pool |-> p]

\* algoAllocPoolFree(allocPool, p).
algoAllocPoolFree(p, elem) ==
    IF elem = NULL
    THEN [err |-> kAlgoErrorNone, pool |-> p]
    ELSE IF ~iPoolIsBlockAddress(p, elem)
    THEN [err |-> kAlgoErrorInvalidArgument, pool |-> p]
    ELSE [err |-> kAlgoErrorNone, pool |-> iPoolPushFree(p, elem)]

\* The addresses of the pool's blocks, in index order.
PoolBlockAddresses(p) == [i \in 1..p.elementCount |-> p.pool + (i - 1) * p.elementSize]

\* Pointers that are not blocks of the pool: before the arena, inside a block,
\* at the arena's end and past it.
PoolForeignPointers(p) ==
    { p.pool - 1, p.pool + 1,
      p.pool + p.elementCount * p.elementSize,
      p.pool + p.elementCount * p.elementSize + p.elementSize }

PoolInit ==
    /\ \E es \in ElementSizes, ec \in 1..MaxElementCount :
          /\ pool = algoAllocPoolCreate(es, ec)
          /\ poolFreeOrder = PoolBlockAddresses(pool)
    /\ poolHeld = {}
    /\ poolLast = [op |-> "Create", err |-> kAlgoErrorNone, hasOut |-> TRUE, ptr |-> NULL,
                   headBefore |-> 0, heldBefore |-> {}, freeBefore |-> <<>>,
                   prevOp |-> "None", prevPtr |-> NULL]

PoolIdle ==
    /\ pool = algoAllocPoolCreate(4, 1)
    /\ poolFreeOrder = PoolBlockAddresses(pool)
    /\ poolHeld = {}
    /\ poolLast = [op |-> "Create", err |-> kAlgoErrorNone, hasOut |-> TRUE, ptr |-> NULL,
                   headBefore |-> 0, heldBefore |-> {}, freeBefore |-> <<>>,
                   prevOp |-> "None", prevPtr |-> NULL]

\* The record of a pool call.
PoolCall(op, err, hasOut, ptr) ==
    [op |-> op, err |-> err, hasOut |-> hasOut, ptr |-> ptr,
     headBefore |-> pool.headIndex, heldBefore |-> poolHeld, freeBefore |-> poolFreeOrder,
     prevOp |-> poolLast.op, prevPtr |-> poolLast.ptr]

\* The client calls algoAllocPoolAlloc and keeps the block it gets.
PoolAlloc ==
    \E hasOut \in BOOLEAN :
        LET r == algoAllocPoolAlloc(pool, hasOut) IN
        /\ pool' = r.pool
        /\ poolLast' = PoolCall("Alloc", r.err, hasOut, r.outPtr)
        /\ IF r.err = kAlgoErrorNone
           THEN /\ poolHeld' = poolHeld \cup {r.outPtr}
                /\ poolFreeOrder' = IF poolFreeOrder = <<>> THEN <<>> ELSE Tail(poolFreeOrder)
           ELSE UNCHANGED <<poolHeld, poolFreeOrder>>
        /\ UNCHANGED <<stackVars, queueVars, heapVars, graphVars, bfsVars, dfsVars, ctorVars>>

\* The client frees a block it holds.
PoolFree ==
    \E elem \in poolHeld :
        LET r == algoAllocPoolFree(pool, elem) IN
        /\ pool' = r.pool
        /\ poolLast' = PoolCall("Free", r.err, TRUE, elem)
        /\ IF r.err = kAlgoErrorNone
           THEN /\ poolHeld' = poolHeld \ {elem}
                /\ poolFreeOrder' = <<elem>> \o poolFreeOrder
           ELSE UNCHANGED <<poolHeld, poolFreeOrder>>
        /\ UNCHANGED <<stackVars, queueVars, heapVars, graphVars, bfsVars, dfsVars, ctorVars>>

\* The client frees NULL or a pointer that is no block of the pool.
PoolFreeForeign ==
    \E elem \in {NULL} \cup PoolForeignPointers(pool) :
        LET r == algoAllocPoolFree(pool, elem) IN
        /\ pool' = r.pool
        /\ poolLast' = PoolCall("FreeForeign", r.err, TRUE, elem)
        /\ UNCHANGED <<poolHeld, poolFreeOrder>>
        /\ UNCHANGED <<stackVars, queueVars, heapVars, graphVars, bfsVars, dfsVars, ctorVars>>

\* The client writes into a block it holds (test_allocpool.c fills every block
\* it gets); the first 4 bytes are what the free list reuses.
PoolWrite ==
    \E elem \in poolHeld, w \in UserWords :
        /\ pool.mem[iPoolIndexOf(pool, elem)] # w
        /\ pool' = [pool EXCEPT !.mem[iPoolIndexOf(pool, elem)] = w]
        /\ UNCHANGED <<poolHeld, poolFreeOrder, poolLast>>
        /\ UNCHANGED <<stackVars, queueVars, heapVars, graphVars, bfsVars, dfsVars, ctorVars>>

(***************************************************************************)
(* Pool: claims                                                            *)
(***************************************************************************)

\* C1: every successful Alloc returns an address inside the arena, on an
\* element boundary, of a block that no outstanding allocation holds.
C1_AllocReturnsUnheldBlock ==
    (poolLast.op = "Alloc" /\ poolLast.err = kAlgoErrorNone) =>
        /\ poolLast.ptr >= pool.pool
        /\ poolLast.ptr < pool.pool + pool.elementCount * pool.elementSize
        /\ (poolLast.ptr - pool.pool) % pool.elementSize = 0
        /\ poolLast.ptr \notin poolLast.heldBefore

\* C1 witness: an Alloc succeeds while another block is held, re-issuing the
\* block the client has just freed (after having written into it).
C1_Witness ==
    /\ poolLast.op = "Alloc" /\ poolLast.err = kAlgoErrorNone
    /\ poolLast.prevOp = "Free" /\ poolLast.prevPtr = poolLast.ptr
    /\ Cardinality(poolLast.heldBefore) >= 2

\* C2: a successful Alloc returns the most recently freed block that has not
\* been re-issued since; with no free so far, the blocks come in index order.
C2_AllocIsLifo ==
    (poolLast.op = "Alloc" /\ poolLast.err = kAlgoErrorNone) =>
        /\ poolLast.freeBefore # <<>>
        /\ poolLast.ptr = Head(poolLast.freeBefore)
        /\ poolFreeOrder = Tail(poolLast.freeBefore)

\* C2 witness: two blocks were freed, the higher-indexed one last, and the
\* Alloc returns that one although it is not the lowest free index.
C2_Witness ==
    /\ poolLast.op = "Alloc" /\ poolLast.err = kAlgoErrorNone
    /\ Len(poolLast.freeBefore) >= 2
    /\ poolLast.ptr > poolLast.freeBefore[2]
    /\ poolLast.prevOp = "Free"

\* C3: an Alloc with a non-null out-pointer fails, with OperationFailed,
\* exactly when headIndex is -1, which is exactly when all elementCount blocks
\* are held; after a successful Free of a held block the head is a block again
\* and an Alloc that follows succeeds.
C3_AllocFailsIffExhausted ==
    /\ (poolLast.op = "Alloc" /\ poolLast.hasOut) =>
          /\ poolLast.err \in {kAlgoErrorNone, kAlgoErrorOperationFailed}
          /\ (poolLast.err = kAlgoErrorOperationFailed) <=> (poolLast.headBefore = -1)
          /\ (poolLast.headBefore = -1) <=>
                (Cardinality(poolLast.heldBefore) = pool.elementCount)
          /\ (poolLast.prevOp = "Free") => (poolLast.err = kAlgoErrorNone)
    /\ (poolLast.op = "Free") =>
          /\ poolLast.err = kAlgoErrorNone
          /\ pool.headIndex # -1

\* C3 witness: every block of a pool of at least two blocks is held and one
\* more Alloc fails.
C3_Witness ==
    /\ poolLast.op = "Alloc" /\ poolLast.err = kAlgoErrorOperationFailed
    /\ poolLast.prevOp = "Alloc"
    /\ pool.elementCount >= 2
    /\ Cardinality(poolHeld) = pool.elementCount

(***************************************************************************)
(* AlgoStack                                                               *)
(***************************************************************************)

\* sizeof(AlgoData) and sizeof(AlgoStackImpl) on an LP64 build.
SizeofAlgoData == 8
SizeofAlgoStackImpl == 32

\* The elements a client pushes and inserts (AlgoData.asInt).
Data == 0..MaxData

\* algoStackComputeBufferSize(&size, stackCapacity), for a non-null size.
algoStackComputeBufferSize(stackCapacity) ==
    IF stackCapacity < 1
    THEN [err |-> kAlgoErrorInvalidArgument, size |-> 0]
    ELSE [err |-> kAlgoErrorNone,
          size |-> SizeofAlgoStackImpl + stackCapacity * SizeofAlgoData]

\* algoStackCreate into a buffer of bufferSize bytes (large enough for
\* stackCapacity >= 1).  nodes is the part of the buffer after the header;
\* -1 stands for a slot that was never written.
algoStackCreate(stackCapacity, bufferSize) ==
    [ thisBufferSize |-> bufferSize,
      capacity       |-> stackCapacity,
      top            |-> 0,
      nodes          |-> [i \in 0..((bufferSize - SizeofAlgoStackImpl) \div SizeofAlgoData - 1)
                             |-> -1] ]

iStackIsEmpty(s) == s.top = 0
iStackIsFull(s) == s.top = s.capacity

\* algoStackGetCurrentSize
algoStackGetCurrentSize(s) == s.top

\* A faulty Resize that never compares the current size with the new capacity.
algoStackResizeNoSizeCheck(s, newStackCapacity, bufferSize) ==
    IF newStackCapacity < 1
    THEN [err |-> kAlgoErrorInvalidArgument, stack |-> s]
    ELSE IF algoStackComputeBufferSize(newStackCapacity).err # kAlgoErrorNone
    THEN [err |-> algoStackComputeBufferSize(newStackCapacity).err, stack |-> s]
    ELSE IF bufferSize < algoStackComputeBufferSize(newStackCapacity).size
    THEN [err |-> kAlgoErrorInvalidArgument, stack |-> s]
    ELSE [err |-> kAlgoErrorNone, stack |-> [s EXCEPT !.capacity = newStackCapacity]]

\* algoStackResize(stack, newStackCapacity, bufferSize)
algoStackResize(s, newStackCapacity, bufferSize) ==
    IF newStackCapacity < 1
    THEN [err |-> kAlgoErrorInvalidArgument, stack |-> s]
    ELSE IF algoStackComputeBufferSize(newStackCapacity).err # kAlgoErrorNone
    THEN [err |-> algoStackComputeBufferSize(newStackCapacity).err, stack |-> s]
    ELSE IF bufferSize < algoStackComputeBufferSize(newStackCapacity).size
    THEN [err |-> kAlgoErrorInvalidArgument, stack |-> s]
    ELSE IF algoStackGetCurrentSize(s) > newStackCapacity
    THEN [err |-> kAlgoErrorOperationFailed, stack |-> s]
    ELSE [err |-> kAlgoErrorNone, stack |-> [s EXCEPT !.capacity = newStackCapacity]]

\* algoStackPush(stack, elem): nodes[top++] = elem
algoStackPush(s, elem) ==
    IF iStackIsFull(s)
    THEN [err |-> kAlgoErrorOperationFailed, stack |-> s]
    ELSE [err |-> kAlgoErrorNone,
          stack |-> [s EXCEPT !.nodes[s.top] = elem, !.top = s.top + 1]]

\* A faulty Pop that reads the top element and leaves top where it was.
algoStackPopNoDecrement(s, hasOut) ==
    IF ~hasOut
    THEN [err |-> kAlgoErrorInvalidArgument, stack |-> s, outElem |-> -1]
    ELSE IF iStackIsEmpty(s)
    THEN [err |-> kAlgoErrorOperationFailed, stack |-> s, outElem |-> -1]
    ELSE [err |-> kAlgoErrorNone, stack |-> s, outElem |-> s.nodes[s.top - 1]]

\* algoStackPop(stack, outElem): *outElem = nodes[--top].  hasOut: outElem is
\* not NULL.  *outElem holds -1 before the call, as in test_stack.c, and is left
\* alone on failure.
algoStackPop(s, hasOut) ==
    IF ~hasOut
    THEN [err |-> kAlgoErrorInvalidArgument, stack |-> s, outElem |-> -1]
    ELSE IF iStackIsEmpty(s)
    THEN [err |-> kAlgoErrorOperationFailed, stack |-> s, outElem |-> -1]
    ELSE [err |-> kAlgoErrorNone,
          stack |-> [s EXCEPT !.top = s.top - 1],
          outElem |-> s.nodes[s.top - 1]]

\* The stored elements, bottom first: nodes[0 .. top-1].
StackContents(s) == [i \in 1..s.top |-> s.nodes[i - 1]]

\* The record of a stack call (without the call before it).
StackCall(op, err, arg, hasOut, out) ==
    [op |-> op, err |-> err, arg |-> arg, hasOut |-> hasOut, out |-> out,
     topBefore |-> stack.top, capacityBefore |-> stack.capacity,
     contentsBefore |-> StackContents(stack), shadowBefore |-> stackShadow]

StackNoCall ==
    [op |-> "Create", err |-> kAlgoErrorNone, arg |-> 0, hasOut |-> TRUE, out |-> -1,
     topBefore |-> 0, capacityBefore |-> 0, contentsBefore |-> <<>>, shadowBefore |-> <<>>]

\* A stack of capacity 1..MaxStackCapacity in a buffer that has room for
\* MaxStackCapacity elements, so that Resize can grow it.
StackInit ==
    /\ \E c \in 1..MaxStackCapacity :
          stack = algoStackCreate(c, algoStackComputeBufferSize(MaxStackCapacity).size)
    /\ stackShadow = <<>>
    /\ stackLast = [call |-> StackNoCall, prev |-> StackNoCall]

StackIdle ==
    /\ stack = algoStackCreate(1, algoStackComputeBufferSize(1).size)
    /\ stackShadow = <<>>
    /\ stackLast = [call |-> StackNoCall, prev |-> StackNoCall]

StackPush ==
    \E elem \in Data :
        LET r == algoStackPush(stack, elem) IN
        /\ stack' = r.stack
        /\ stackLast' = [call |-> StackCall("Push", r.err, elem, TRUE, -1),
                         prev |-> stackLast.call]
        /\ stackShadow' = IF r.err = kAlgoErrorNone
                          THEN Append(stackShadow, elem) ELSE stackShadow
        /\ UNCHANGED <<poolVars, queueVars, heapVars, graphVars, bfsVars, dfsVars, ctorVars>>

StackPop ==
    \E hasOut \in BOOLEAN :
        LET r == algoStackPop(stack, hasOut) IN
        /\ stack' = r.stack
        /\ stackLast' = [call |-> StackCall("Pop", r.err, 0, hasOut, r.outElem),
                         prev |-> stackLast.call]
        /\ stackShadow' = IF r.err = kAlgoErrorNone /\ stackShadow # <<>>
                          THEN SubSeq(stackShadow, 1, Len(stackShadow) - 1)
                          ELSE stackShadow
        /\ UNCHANGED <<poolVars, queueVars, heapVars, graphVars, bfsVars, dfsVars, ctorVars>>

\* The client passes the true size of the stack's buffer.
StackResize ==
    \E newStackCapacity \in 0..(MaxStackCapacity + 1) :
        LET r == algoStackResize(stack, newStackCapacity, stack.thisBufferSize) IN
        /\ stack' = r.stack
        /\ stackLast' = [call |-> StackCall("Resize", r.err, newStackCapacity, TRUE, -1),
                         prev |-> stackLast.call]
        /\ UNCHANGED stackShadow
        /\ UNCHANGED <<poolVars, queueVars, heapVars, graphVars, bfsVars, dfsVars, ctorVars>>

(***************************************************************************)
(* Stack: claims                                                           *)
(***************************************************************************)

\* C4: a successful Pop returns the most recently pushed element that has not
\* been popped; right after a successful Push(x) it returns x and the stack has
\* the contents and the size it had before the Push.
C4_PopIsLifo ==
    (stackLast.call.op = "Pop" /\ stackLast.call.err = kAlgoErrorNone) =>
        /\ stackLast.call.shadowBefore # <<>>
        /\ stackLast.call.out = stackLast.call.shadowBefore[Len(stackLast.call.shadowBefore)]
        /\ (stackLast.prev.op = "Push" /\ stackLast.prev.err = kAlgoErrorNone) =>
              /\ stackLast.call.out = stackLast.prev.arg
              /\ StackContents(stack) = stackLast.prev.contentsBefore
              /\ algoStackGetCurrentSize(stack) = stackLast.prev.topBefore

\* C4 witness: x is pushed onto a stack whose top element is not x, and the Pop
\* that follows returns x.
C4_Witness ==
    /\ stackLast.call.op = "Pop" /\ stackLast.call.err = kAlgoErrorNone
    /\ stackLast.prev.op = "Push" /\ stackLast.prev.err = kAlgoErrorNone
    /\ stackLast.prev.topBefore >= 1
    /\ stackLast.prev.contentsBefore[stackLast.prev.topBefore] # stackLast.call.out
    /\ stackLast.call.out = stackLast.prev.arg

\* Resize's arguments pass its argument checks: the capacity is at least 1 and
\* the buffer is large enough for it.
StackResizeArgsValid(call) ==
    /\ call.arg >= 1
    /\ stack.thisBufferSize >= SizeofAlgoStackImpl + call.arg * SizeofAlgoData

\* C5: 0 <= top <= capacity and CurrentSize is the number of elements pushed
\* and not popped; Push fails (OperationFailed) exactly when top = capacity, Pop
\* (with a non-null out-pointer) exactly when top = 0, and Resize (with a
\* capacity >= 1 that the buffer has room for) exactly when the size exceeds
\* the new capacity; a Resize that succeeds keeps top and the elements.
C5_StackBoundsAndFailures ==
    /\ 0 <= stack.top /\ stack.top <= stack.capacity
    /\ algoStackGetCurrentSize(stack) = Len(stackShadow)
    /\ (stackLast.call.op = "Push") =>
          /\ stackLast.call.err \in {kAlgoErrorNone, kAlgoErrorOperationFailed}
          /\ (stackLast.call.err = kAlgoErrorOperationFailed) <=>
                (stackLast.call.topBefore = stackLast.call.capacityBefore)
    /\ (stackLast.call.op = "Pop" /\ stackLast.call.hasOut) =>
          /\ stackLast.call.err \in {kAlgoErrorNone, kAlgoErrorOperationFailed}
          /\ (stackLast.call.err = kAlgoErrorOperationFailed) <=>
                (stackLast.call.topBefore = 0)
    /\ (stackLast.call.op = "Resize" /\ StackResizeArgsValid(stackLast.call)) =>
          /\ stackLast.call.err \in {kAlgoErrorNone, kAlgoErrorOperationFailed}
          /\ (stackLast.call.err = kAlgoErrorOperationFailed) <=>
                (stackLast.call.topBefore > stackLast.call.arg)
          /\ (stackLast.call.err = kAlgoErrorNone) =>
                /\ stack.capacity = stackLast.call.arg
                /\ stack.top = stackLast.call.topBefore
                /\ StackContents(stack) = stackLast.call.contentsBefore
    /\ (stackLast.call.op = "Resize" /\ stackLast.call.err # kAlgoErrorNone) =>
          /\ stack.capacity = stackLast.call.capacityBefore
          /\ StackContents(stack) = stackLast.call.contentsBefore

\* C5 witness: a Push onto a full stack fails, and then a Resize to one less
\* than the current size fails.
C5_Witness ==
    /\ stackLast.call.op = "Resize" /\ stackLast.call.err = kAlgoErrorOperationFailed
    /\ stackLast.call.arg >= 1
    /\ stackLast.call.topBefore = stackLast.call.arg + 1
    /\ stack.top = stack.capacity
    /\ stackLast.prev.op = "Push" /\ stackLast.prev.err = kAlgoErrorOperationFailed

(***************************************************************************)
(* AlgoQueue                                                               *)
(***************************************************************************)

\* algoQueueCreate, for queueCapacity >= 1 and a large enough buffer.  nodes has
\* one slot more than the capacity; -1 stands for a slot never written.
algoQueueCreate(queueCapacity) ==
    [ capacity  |-> queueCapacity,
      nodeCount |-> queueCapacity + 1,
      nodes     |-> [i \in 0..queueCapacity |-> -1],
      head      |-> 0,
      tail      |-> 0 ]

iQueueIsEmpty(q) == q.head = q.tail

\* A faulty fullness test that forgets the wrap-around of tail+1.
iQueueIsFullNoWrap(q) == q.head = q.tail + 1

iQueueIsFull(q) == q.head = (q.tail + 1) % q.nodeCount

\* A faulty Insert that advances tail before it stores the element.
algoQueueInsertAdvanceFirst(q, elem) ==
    IF iQueueIsFull(q)
    THEN [err |-> kAlgoErrorOperationFailed, queue |-> q]
    ELSE [err |-> kAlgoErrorNone,
          queue |-> [q EXCEPT !.nodes[(q.tail + 1) % q.nodeCount] = elem,
                              !.tail = (q.tail + 1) % q.nodeCount]]

\* algoQueueInsert(queue, elem)
algoQueueInsert(q, elem) ==
    IF iQueueIsFull(q)
    THEN [err |-> kAlgoErrorOperationFailed, queue |-> q]
    ELSE [err |-> kAlgoErrorNone,
          queue |-> [q EXCEPT !.nodes[q.tail] = elem,
                              !.tail = (q.tail + 1) % q.nodeCount]]

\* algoQueueRemove(queue, outElem).  hasOut: outElem is not NULL.  *outElem
\* holds -1 before the call, as in test_queue.c, and is left alone on failure.
algoQueueRemove(q, hasOut) ==
    IF ~hasOut
    THEN [err |-> kAlgoErrorInvalidArgument, queue |-> q, outElem |-> -1]
    ELSE IF iQueueIsEmpty(q)
    THEN [err |-> kAlgoErrorOperationFailed, queue |-> q, outElem |-> -1]
    ELSE [err |-> kAlgoErrorNone,
          queue |-> [q EXCEPT !.head = (q.head + 1) % q.nodeCount],
          outElem |-> q.nodes[q.head]]

\* algoQueueGetCurrentSize
algoQueueGetCurrentSize(q) == (q.tail + q.nodeCount - q.head) % q.nodeCount

\* The record of a queue call.
QueueCall(op, err, arg, hasOut, out) ==
    [op |-> op, err |-> err, arg |-> arg, hasOut |-> hasOut, out |-> out,
     headBefore |-> queue.head, tailBefore |-> queue.tail,
     sizeBefore |-> algoQueueGetCurrentSize(queue), shadowBefore |-> queueShadow]

QueueNoCall ==
    [op |-> "Create", err |-> kAlgoErrorNone, arg |-> 0, hasOut |-> TRUE, out |-> -1,
     headBefore |-> 0, tailBefore |-> 0, sizeBefore |-> 0, shadowBefore |-> <<>>]

QueueInit ==
    /\ \E c \in 1..MaxQueueCapacity : queue = algoQueueCreate(c)
    /\ queueShadow = <<>>
    /\ queueLast = QueueNoCall

QueueIdle ==
    /\ queue = algoQueueCreate(1)
    /\ queueShadow = <<>>
    /\ queueLast = QueueNoCall

QueueInsert ==
    \E elem \in Data :
        LET r == algoQueueInsert(queue, elem) IN
        /\ queue' = r.queue
        /\ queueLast' = QueueCall("Insert", r.err, elem, TRUE, -1)
        /\ queueShadow' = IF r.err = kAlgoErrorNone
                          THEN Append(queueShadow, elem) ELSE queueShadow
        /\ UNCHANGED <<poolVars, stackVars, heapVars, graphVars, bfsVars, dfsVars, ctorVars>>

QueueRemove ==
    \E hasOut \in BOOLEAN :
        LET r == algoQueueRemove(queue, hasOut) IN
        /\ queue' = r.queue
        /\ queueLast' = QueueCall("Remove", r.err, 0, hasOut, r.outElem)
        /\ queueShadow' = IF r.err = kAlgoErrorNone /\ queueShadow # <<>>
                          THEN Tail(queueShadow) ELSE queueShadow
        /\ UNCHANGED <<poolVars, stackVars, heapVars, graphVars, bfsVars, dfsVars, ctorVars>>

(***************************************************************************)
(* Queue: claims                                                           *)
(***************************************************************************)

\* C6: a successful Remove returns the oldest element inserted and not yet
\* removed, so elements leave in the order they entered, also when head and
\* tail have wrapped around the end of nodes[].
C6_RemoveIsFifo ==
    (queueLast.op = "Remove" /\ queueLast.err = kAlgoErrorNone) =>
        /\ queueLast.shadowBefore # <<>>
        /\ queueLast.out = Head(queueLast.shadowBefore)
        /\ queueShadow = Tail(queueLast.shadowBefore)

\* C6 witness: a Remove from a queue whose elements wrap around the end of
\* nodes[] (tail is below head) returns an element that differs from the newest.
C6_Witness ==
    /\ queueLast.op = "Remove" /\ queueLast.err = kAlgoErrorNone
    /\ queueLast.tailBefore < queueLast.headBefore
    /\ queueLast.sizeBefore >= 2
    /\ queueLast.out # queueLast.shadowBefore[Len(queueLast.shadowBefore)]

\* C7: head and tail stay inside nodes[]; CurrentSize is the number of elements
\* inserted and not removed and is at most capacity; Insert fails
\* (OperationFailed) exactly when the size is capacity and Remove (with a
\* non-null out-pointer) exactly when the size is 0; empty and full differ.
C7_QueueBoundsAndFailures ==
    /\ 0 <= queue.head /\ queue.head < queue.nodeCount
    /\ 0 <= queue.tail /\ queue.tail < queue.nodeCount
    /\ algoQueueGetCurrentSize(queue) = Len(queueShadow)
    /\ algoQueueGetCurrentSize(queue) \in 0..queue.capacity
    /\ (queue.head = queue.tail) <=> (Len(queueShadow) = 0)
    /\ (queue.head = queue.tail) => (Len(queueShadow) # queue.capacity)
    /\ (queueLast.op = "Insert") =>
          /\ queueLast.err \in {kAlgoErrorNone, kAlgoErrorOperationFailed}
          /\ (queueLast.err = kAlgoErrorOperationFailed) <=>
                (Len(queueLast.shadowBefore) = queue.capacity)
    /\ (queueLast.op = "Remove" /\ queueLast.hasOut) =>
          /\ queueLast.err \in {kAlgoErrorNone, kAlgoErrorOperationFailed}
          /\ (queueLast.err = kAlgoErrorOperationFailed) <=>
                (Len(queueLast.shadowBefore) = 0)

\* C7 witness: an Insert fails on a full queue whose tail has wrapped around
\* (the full state with tail + 1 = head, not tail = nodeCount - 1).
C7_Witness ==
    /\ queueLast.op = "Insert" /\ queueLast.err = kAlgoErrorOperationFailed
    /\ queue.capacity >= 2
    /\ queue.tail + 1 = queue.head
    /\ Len(queueShadow) = queue.capacity

(***************************************************************************)
(* AlgoHeap                                                                *)
(***************************************************************************)

kAlgoHeapRootIndex == 1

\* The (key, data) pairs a client inserts: three keys with the key as data, as
\* test_heap.c does, and one of the keys also with another data.
HeapPairs ==
    { [key |-> 0, data |-> 0], [key |-> 1, data |-> 1],
      [key |-> 1, data |-> 9], [key |-> 2, data |-> 2] }

\* The comparators a heap is created with.
HeapComparators == {"algoDataCompareIntAscending", "algoDataCompareIntDescending"}

algoDataCompareIntAscending(keyL, keyR) ==
    IF keyL < keyR THEN -1 ELSE IF keyL > keyR THEN 1 ELSE 0

algoDataCompareIntDescending(keyL, keyR) ==
    IF keyL > keyR THEN -1 ELSE IF keyL < keyR THEN 1 ELSE 0

\* heap->keyCompare(keyL, keyR): the call through the function pointer.
keyCompare(h, keyL, keyR) ==
    IF h.keyCompare = "algoDataCompareIntAscending"
    THEN algoDataCompareIntAscending(keyL, keyR)
    ELSE algoDataCompareIntDescending(keyL, keyR)

\* algoHeapCreate, for a capacity >= 1, a comparator and a large enough buffer.
\* nodes[0] is unused; (-1, -1) stands for a node that was never written.
algoHeapCreate(heapCapacity, compare) ==
    [ keyCompare |-> compare,
      capacity   |-> heapCapacity,
      nextEmpty  |-> kAlgoHeapRootIndex,
      nodes      |-> [i \in 0..heapCapacity |-> [key |-> -1, data |-> -1]] ]

iHeapCurrentSize(h) == h.nextEmpty - kAlgoHeapRootIndex

iHeapIsNodeValid(h, nodeIndex) ==
    /\ nodeIndex >= kAlgoHeapRootIndex
    /\ nodeIndex < h.nextEmpty
    /\ nodeIndex < h.capacity + kAlgoHeapRootIndex

iHeapParentIndex(childIndex) == childIndex \div 2
iHeapLeftChildIndex(parentIndex) == parentIndex * 2
iHeapRightChildIndex(parentIndex) == parentIndex * 2 + 1

iHeapSwapNodes(h, index1, index2) ==
    [h EXCEPT !.nodes[index1] = h.nodes[index2],
              !.nodes[index2] = h.nodes[index1]]

\* A faulty bubble-up that swaps the new node with its parent at most once.
iHeapBubbleUpOnce(h, childIndex) ==
    IF childIndex > kAlgoHeapRootIndex
    THEN IF keyCompare(h, h.nodes[iHeapParentIndex(childIndex)].key,
                          h.nodes[childIndex].key) <= 0
         THEN h
         ELSE iHeapSwapNodes(h, iHeapParentIndex(childIndex), childIndex)
    ELSE h

\* The bubble-up loop of algoHeapInsert, from childIndex.
RECURSIVE iHeapBubbleUp(_, _)
iHeapBubbleUp(h, childIndex) ==
    IF childIndex > kAlgoHeapRootIndex
    THEN IF keyCompare(h, h.nodes[iHeapParentIndex(childIndex)].key,
                          h.nodes[childIndex].key) <= 0
         THEN h
         ELSE iHeapBubbleUp(iHeapSwapNodes(h, iHeapParentIndex(childIndex), childIndex),
                            iHeapParentIndex(childIndex))
    ELSE h

\* algoHeapInsert(heap, key, data)
algoHeapInsert(h, key, data) ==
    IF iHeapCurrentSize(h) >= h.capacity
    THEN [err |-> kAlgoErrorOperationFailed, heap |-> h]
    ELSE [err |-> kAlgoErrorNone,
          heap |-> iHeapBubbleUp(
                      [h EXCEPT !.nextEmpty = h.nextEmpty + 1,
                                !.nodes[h.nextEmpty] = [key |-> key, data |-> data]],
                      h.nextEmpty)]

\* A faulty Peek that reads the last node instead of the root.
algoHeapPeekLast(h, hasKey, hasData) ==
    IF 0 = iHeapCurrentSize(h)
    THEN [err |-> kAlgoErrorOperationFailed, heap |-> h, outTopKey |-> -1, outTopData |-> -1]
    ELSE [err |-> kAlgoErrorNone, heap |-> h,
          outTopKey  |-> IF hasKey THEN h.nodes[h.nextEmpty - 1].key ELSE -1,
          outTopData |-> IF hasData THEN h.nodes[h.nextEmpty - 1].data ELSE -1]

\* algoHeapPeek(heap, outTopKey, outTopData).  hasKey, hasData: the out-pointer
\* is not NULL.  An output that is not written holds -1.
algoHeapPeek(h, hasKey, hasData) ==
    IF 0 = iHeapCurrentSize(h)
    THEN [err |-> kAlgoErrorOperationFailed, heap |-> h, outTopKey |-> -1, outTopData |-> -1]
    ELSE [err |-> kAlgoErrorNone, heap |-> h,
          outTopKey  |-> IF hasKey THEN h.nodes[kAlgoHeapRootIndex].key ELSE -1,
          outTopData |-> IF hasData THEN h.nodes[kAlgoHeapRootIndex].data ELSE -1]

\* A faulty choice that compares the right child with the parent instead of
\* with the smaller of the parent and the left child.
iHeapMinKeyIndexRightVsParent(h, parentIndex) ==
    LET leftChildIndex == iHeapLeftChildIndex(parentIndex)
        rightChildIndex == iHeapRightChildIndex(parentIndex)
    IN  IF rightChildIndex < h.nextEmpty
           /\ keyCompare(h, h.nodes[rightChildIndex].key, h.nodes[parentIndex].key) < 0
        THEN rightChildIndex
        ELSE IF keyCompare(h, h.nodes[leftChildIndex].key, h.nodes[parentIndex].key) < 0
        THEN leftChildIndex
        ELSE parentIndex

\* A faulty choice that also takes a child whose key ties with the one it is
\* compared to.
iHeapMinKeyIndexNonStrict(h, parentIndex) ==
    LET leftChildIndex == iHeapLeftChildIndex(parentIndex)
        rightChildIndex == iHeapRightChildIndex(parentIndex)
        afterLeft == IF keyCompare(h, h.nodes[leftChildIndex].key,
                                      h.nodes[parentIndex].key) <= 0
                     THEN leftChildIndex ELSE parentIndex
    IN  IF rightChildIndex < h.nextEmpty
           /\ keyCompare(h, h.nodes[rightChildIndex].key, h.nodes[afterLeft].key) <= 0
        THEN rightChildIndex
        ELSE afterLeft

\* The child algoHeapPop's bubble-down swaps nodes[parentIndex] with, or
\* parentIndex itself: the left child if its key is smaller than the parent's,
\* then the right child if its key is smaller than that.
iHeapMinKeyIndex(h, parentIndex) ==
    LET leftChildIndex == iHeapLeftChildIndex(parentIndex)
        rightChildIndex == iHeapRightChildIndex(parentIndex)
        afterLeft == IF keyCompare(h, h.nodes[leftChildIndex].key,
                                      h.nodes[parentIndex].key) < 0
                     THEN leftChildIndex ELSE parentIndex
    IN  IF rightChildIndex < h.nextEmpty
           /\ keyCompare(h, h.nodes[rightChildIndex].key, h.nodes[afterLeft].key) < 0
        THEN rightChildIndex
        ELSE afterLeft

\* The bubble-down loop of algoHeapPop, from parentIndex; nextEmpty still
\* counts the last node.
RECURSIVE iHeapBubbleDown(_, _)
iHeapBubbleDown(h, parentIndex) ==
    IF iHeapLeftChildIndex(parentIndex) < h.nextEmpty
    THEN IF iHeapMinKeyIndex(h, parentIndex) = parentIndex
         THEN h
         ELSE iHeapBubbleDown(iHeapSwapNodes(h, parentIndex, iHeapMinKeyIndex(h, parentIndex)),
                              iHeapMinKeyIndex(h, parentIndex))
    ELSE h

\* algoHeapPop(heap, outTopKey, outTopData)
algoHeapPop(h, hasKey, hasData) ==
    IF 0 = iHeapCurrentSize(h)
    THEN [err |-> kAlgoErrorOperationFailed, heap |-> h, outTopKey |-> -1, outTopData |-> -1]
    ELSE [err |-> kAlgoErrorNone,
          heap |-> [iHeapBubbleDown(
                        [h EXCEPT !.nodes[kAlgoHeapRootIndex] = h.nodes[h.nextEmpty - 1]],
                        kAlgoHeapRootIndex)
                    EXCEPT !.nextEmpty = h.nextEmpty - 1],
          outTopKey  |-> IF hasKey THEN h.nodes[kAlgoHeapRootIndex].key ELSE -1,
          outTopData |-> IF hasData THEN h.nodes[kAlgoHeapRootIndex].data ELSE -1]

\* algoHeapValidate(heap)
algoHeapValidate(h) ==
    IF h.nextEmpty < kAlgoHeapRootIndex \/ h.capacity < 0 \/ iHeapCurrentSize(h) > h.capacity
    THEN kAlgoErrorInvalidArgument
    ELSE IF iHeapCurrentSize(h) = 0
    THEN kAlgoErrorNone
    ELSE IF \E iNode \in (kAlgoHeapRootIndex + 1)..(h.nextEmpty - 1) :
               keyCompare(h, h.nodes[iNode].key, h.nodes[iHeapParentIndex(iNode)].key) < 0
    THEN kAlgoErrorInvalidArgument
    ELSE kAlgoErrorNone

\* The (key, data) pairs the heap holds, nodes[1 .. nextEmpty-1], as a bag.
HeapBag(h) ==
    LET live == kAlgoHeapRootIndex..(h.nextEmpty - 1) IN
    [e \in {h.nodes[i] : i \in live} |-> Cardinality({i \in live : h.nodes[i] = e})]

\* The record of a heap call: the key and data it was given (Insert) or
\* returned (Peek, Pop), and popFloor, the key of the latest successful Pop
\* since the last successful Insert (-1: none, or none whose key was asked for).
HeapCall(op, err, key, data, hasKey, hasData, popFloor) ==
    [op |-> op, err |-> err, key |-> key, data |-> data,
     hasKey |-> hasKey, hasData |-> hasData, popFloor |-> popFloor,
     sizeBefore |-> iHeapCurrentSize(heap)]

HeapNoCall ==
    [op |-> "Create", err |-> kAlgoErrorNone, key |-> -1, data |-> -1,
     hasKey |-> TRUE, hasData |-> TRUE, popFloor |-> -1, sizeBefore |-> 0]

HeapInit ==
    /\ \E c \in 1..MaxHeapCapacity, cmp \in HeapComparators :
          heap = algoHeapCreate(c, cmp)
    /\ heapShadow = EmptyBag
    /\ heapLast = HeapNoCall

HeapIdle ==
    /\ heap = algoHeapCreate(1, "algoDataCompareIntAscending")
    /\ heapShadow = EmptyBag
    /\ heapLast = HeapNoCall

HeapInsert ==
    \E pair \in HeapPairs :
        LET r == algoHeapInsert(heap, pair.key, pair.data) IN
        /\ heap' = r.heap
        /\ heapLast' = HeapCall("Insert", r.err, pair.key, pair.data, TRUE, TRUE,
                                IF r.err = kAlgoErrorNone THEN -1 ELSE heapLast.popFloor)
        /\ heapShadow' = IF r.err = kAlgoErrorNone
                         THEN heapShadow (+) SetToBag({pair})
                         ELSE heapShadow
        /\ UNCHANGED <<poolVars, stackVars, queueVars, graphVars, bfsVars, dfsVars, ctorVars>>

HeapPeek ==
    \E hasKey \in BOOLEAN, hasData \in BOOLEAN :
        LET r == algoHeapPeek(heap, hasKey, hasData) IN
        /\ heap' = r.heap
        /\ heapLast' = HeapCall("Peek", r.err, r.outTopKey, r.outTopData, hasKey, hasData,
                                heapLast.popFloor)
        /\ UNCHANGED heapShadow
        /\ UNCHANGED <<poolVars, stackVars, queueVars, graphVars, bfsVars, dfsVars, ctorVars>>

\* The ledger loses the pair that was at the root, whether or not the client
\* asked for the key and the data.
HeapPop ==
    \E hasKey \in BOOLEAN, hasData \in BOOLEAN :
        LET r == algoHeapPop(heap, hasKey, hasData) IN
        /\ heap' = r.heap
        /\ heapLast' = HeapCall("Pop", r.err, r.outTopKey, r.outTopData, hasKey, hasData,
                                IF r.err = kAlgoErrorNone /\ hasKey
                                THEN r.outTopKey ELSE heapLast.popFloor)
        /\ heapShadow' = IF r.err = kAlgoErrorNone
                         THEN heapShadow (-) SetToBag({heap.nodes[kAlgoHeapRootIndex]})
                         ELSE heapShadow
        /\ UNCHANGED <<poolVars, stackVars, queueVars, graphVars, bfsVars, dfsVars, ctorVars>>

(***************************************************************************)
(* Heap: claims                                                            *)
(***************************************************************************)

\* C8: a successful Pop removes exactly one pair e of the pairs inserted and
\* not yet popped and keeps all the others; e's key is minimal under keyCompare
\* among them, the key and the data the call returns are e's, and e's key is
\* not before the key of the previous Pop when no Insert came in between.
C8_PopRemovesMinimum ==
    [][ (heapLast'.op = "Pop" /\ heapLast'.err = kAlgoErrorNone) =>
          /\ HeapBag(heap) = heapShadow
          /\ \E e \in BagToSet(heapShadow) :
                /\ heapLast'.hasKey => heapLast'.key = e.key
                /\ heapLast'.hasData => heapLast'.data = e.data
                /\ \A other \in BagToSet(heapShadow) :
                      keyCompare(heap, e.key, other.key) <= 0
                /\ HeapBag(heap') = heapShadow (-) SetToBag({e})
                /\ heapLast.popFloor # -1 =>
                      keyCompare(heap, heapLast.popFloor, e.key) <= 0
      ]_vars

\* C8 witness: a Pop from a heap of four pairs with a tie on key 1 has returned
\* the pair (1, 9) and has left the pair (1, 1) in the heap.
C8_Witness ==
    /\ heapLast.op = "Pop" /\ heapLast.err = kAlgoErrorNone
    /\ heapLast.hasKey /\ heapLast.hasData
    /\ heapLast.sizeBefore = 4
    /\ heapLast.key = 1 /\ heapLast.data = 9
    /\ BagIn([key |-> 1, data |-> 1], heapShadow)

\* C9: 1 <= nextEmpty <= capacity + 1, no node is before its parent, and
\* algoHeapValidate returns OK, in every state; Insert fails (OperationFailed)
\* exactly when the heap holds capacity pairs, Peek and Pop exactly when it
\* holds none.
C9_HeapValid ==
    /\ 1 <= heap.nextEmpty /\ heap.nextEmpty <= heap.capacity + 1
    /\ \A i \in 2..(heap.nextEmpty - 1) :
          keyCompare(heap, heap.nodes[i \div 2].key, heap.nodes[i].key) <= 0
    /\ algoHeapValidate(heap) = kAlgoErrorNone
    /\ BagCardinality(heapShadow) = iHeapCurrentSize(heap)
    /\ heapLast.op \in {"Insert", "Peek", "Pop"} =>
          heapLast.err \in {kAlgoErrorNone, kAlgoErrorOperationFailed}
    /\ (heapLast.op = "Insert") =>
          ((heapLast.err = kAlgoErrorOperationFailed) <=>
              (heapLast.sizeBefore = heap.capacity))
    /\ (heapLast.op \in {"Peek", "Pop"}) =>
          ((heapLast.err = kAlgoErrorOperationFailed) <=> (heapLast.sizeBefore = 0))

\* C9 witness: an Insert fails on a heap that holds four pairs, its capacity,
\* with different keys at the root and at the last node.
C9_Witness ==
    /\ heapLast.op = "Insert" /\ heapLast.err = kAlgoErrorOperationFailed
    /\ heap.capacity = 4 /\ iHeapCurrentSize(heap) = 4
    /\ heap.nodes[1].key # heap.nodes[4].key

\* C10: a Peek leaves nextEmpty and nodes[] as they were, and the key and data
\* it returns are those a Pop called next returns.
C10_PeekMatchesPop ==
    [][ (heapLast'.op = "Peek") =>
          /\ heap' = heap
          /\ (heapLast'.err = kAlgoErrorNone) =>
                /\ algoHeapPop(heap', TRUE, TRUE).err = kAlgoErrorNone
                /\ heapLast'.hasKey =>
                      heapLast'.key = algoHeapPop(heap', TRUE, TRUE).outTopKey
                /\ heapLast'.hasData =>
                      heapLast'.data = algoHeapPop(heap', TRUE, TRUE).outTopData
      ]_vars

\* C10 witness: a Peek at a heap of at least three pairs has returned the pair
\* (1, 9), which is not the last node.
C10_Witness ==
    /\ heapLast.op = "Peek" /\ heapLast.err = kAlgoErrorNone
    /\ heapLast.hasKey /\ heapLast.hasData
    /\ iHeapCurrentSize(heap) >= 3
    /\ heapLast.key = 1 /\ heapLast.data = 9
    /\ heap.nodes[heap.nextEmpty - 1].data # 9

(***************************************************************************)
(* AlgoGraph                                                               *)
(***************************************************************************)

\* AlgoGraphEdgeMode
kAlgoGraphEdgeUndirected == 0
kAlgoGraphEdgeDirected == 1
GraphEdgeModes == {kAlgoGraphEdgeUndirected, kAlgoGraphEdgeDirected}

\* sizeof(AlgoGraphEdge): destVertex (4 bytes, at offset 0), weight (4), next (8).
SizeofAlgoGraphEdge == 16

\* What the vertex data of a client is: AlgoData.asInt values, which share
\* their storage with the links of the free vertex list.
GraphVertexData == {0, 1}

\* What memory that algoGraphCreate does not write may hold.
GraphGarbageWords == {-1, 0}

\* nodesPerEdge: undirected edges store two nodes, x->y and y->x.
\* A faulty count that gives an undirected edge a single list node.
iGraphNodesPerEdgeAlwaysOne(edgeMode) == 1

iGraphNodesPerEdge(edgeMode) == IF edgeMode = kAlgoGraphEdgeDirected THEN 1 ELSE 2

\* algoGraphCreate, for valid parameters and a large enough buffer.  garbage
\* is what the words left unwritten hold: validVertexIds, vertexIdToValidIndex
\* and the next field of every block of the edge pool (edgeNext; the
\* destVertex field is the block's first word, edgePool.mem).
algoGraphCreate(vertexCapacity, edgeCapacity, edgeMode, garbage) ==
    [ vertexCapacity       |-> vertexCapacity,
      edgeCapacity         |-> edgeCapacity,
      currentVertexCount   |-> 0,
      currentEdgeCount     |-> 0,
      nextFreeVertexId     |-> 0,
      edgeMode             |-> edgeMode,
      vertexDegrees        |-> [v \in 0..(vertexCapacity - 1) |-> -1],
      vertexData           |-> [v \in 0..(vertexCapacity - 1) |->
                                   IF v < vertexCapacity - 1 THEN v + 1 ELSE -1],
      validVertexIds       |-> [i \in 0..(vertexCapacity - 1) |-> garbage],
      vertexIdToValidIndex |-> [v \in 0..(vertexCapacity - 1) |-> garbage],
      vertexEdges          |-> [v \in 0..(vertexCapacity - 1) |-> NULL],
      edgePool             |-> algoAllocPoolCreate(SizeofAlgoGraphEdge,
                                   edgeCapacity * iGraphNodesPerEdge(edgeMode)),
      edgeNext             |-> [i \in 0..(edgeCapacity * iGraphNodesPerEdge(edgeMode) - 1)
                                   |-> garbage] ]

iGraphIsValidVertexId(g, vertexId) ==
    /\ vertexId >= 0
    /\ vertexId < g.vertexCapacity
    /\ g.vertexDegrees[vertexId] >= 0

\* edge->destVertex and edge->next, for the block at address edge.
iEdgeDestVertex(g, edge) == iPoolReadWord(g.edgePool, edge)
iEdgeNext(g, edge) == g.edgeNext[iPoolIndexOf(g.edgePool, edge)]

\* A faulty scan that never finds the edge.
iGraphListHasDestNever(g, edge, destVertexId) == FALSE

\* A faulty scan that looks at the first node only.
iGraphListHasDestHeadOnly(g, edge, destVertexId) ==
    edge # NULL /\ iEdgeDestVertex(g, edge) = destVertexId

\* for (edge = ...; edge != NULL; edge = edge->next) if (edge->destVertex ==
\* destVertexId) ...: the scan of algoGraphAddEdge.
RECURSIVE iGraphListHasDest(_, _, _)
iGraphListHasDest(g, edge, destVertexId) ==
    IF edge = NULL THEN FALSE
    ELSE IF iEdgeDestVertex(g, edge) = destVertexId THEN TRUE
    ELSE iGraphListHasDest(g, iEdgeNext(g, edge), destVertexId)

\* The while loop of iGraphRemoveEdgeFromList: unlink and free the first node
\* after edge whose destination is destVertexId.
RECURSIVE iGraphUnlinkAfter(_, _, _)
iGraphUnlinkAfter(g, edge, destVertexId) ==
    IF iEdgeNext(g, edge) = NULL
    THEN [found |-> FALSE, graph |-> g]
    ELSE IF iEdgeDestVertex(g, iEdgeNext(g, edge)) = destVertexId
    THEN LET toFree == iEdgeNext(g, edge) IN
         [found |-> TRUE,
          graph |-> [g EXCEPT
                        !.edgeNext[iPoolIndexOf(g.edgePool, edge)] = iEdgeNext(g, toFree),
                        !.edgePool = algoAllocPoolFree(g.edgePool, toFree).pool]]
    ELSE iGraphUnlinkAfter(g, iEdgeNext(g, edge), destVertexId)

\* The search of iGraphRemoveEdgeFromList, before the degree is touched.
iGraphFindAndUnlink(g, srcVertexId, destVertexId) ==
    LET edge == g.vertexEdges[srcVertexId] IN
    IF edge = NULL
    THEN [found |-> FALSE, graph |-> g]
    ELSE IF iEdgeDestVertex(g, edge) = destVertexId
    THEN [found |-> TRUE,
          graph |-> [g EXCEPT
                        !.vertexEdges[srcVertexId] = iEdgeNext(g, edge),
                        !.edgePool = algoAllocPoolFree(g.edgePool, edge).pool]]
    ELSE iGraphUnlinkAfter(g, edge, destVertexId)

\* A faulty removal that unlinks the node and leaves the degree as it was.
iGraphRemoveEdgeFromListKeepDegree(g, srcVertexId, destVertexId) ==
    iGraphFindAndUnlink(g, srcVertexId, destVertexId)

\* iGraphRemoveEdgeFromList: removes a single edge and decrements the source
\* vertex's degree; the edge count is the caller's business.
iGraphRemoveEdgeFromList(g, srcVertexId, destVertexId) ==
    LET r == iGraphFindAndUnlink(g, srcVertexId, destVertexId) IN
    IF ~r.found
    THEN [found |-> FALSE, graph |-> g]
    ELSE [found |-> TRUE,
          graph |-> [r.graph EXCEPT !.vertexDegrees[srcVertexId] = @ - 1]]

\* algoGraphSetVertexData(graph, vertexId, value).
algoGraphSetVertexData(g, vertexId, value) ==
    IF ~iGraphIsValidVertexId(g, vertexId)
    THEN [err |-> kAlgoErrorInvalidArgument, graph |-> g]
    ELSE [err |-> kAlgoErrorNone, graph |-> [g EXCEPT !.vertexData[vertexId] = value]]

\* A faulty AddVertex that leaves the free-list link in the slot instead of
\* storing the caller's data.
algoGraphAddVertexKeepLink(g, vertexData, hasOut) ==
    IF g.currentVertexCount >= g.vertexCapacity
    THEN [err |-> kAlgoErrorOperationFailed, graph |-> g, outVertexId |-> -1,
          assertFailed |-> FALSE]
    ELSE LET newVertexId == g.nextFreeVertexId IN
         [err |-> kAlgoErrorNone,
          graph |-> [g EXCEPT
              !.nextFreeVertexId = g.vertexData[newVertexId],
              !.vertexDegrees[newVertexId] = 0,
              !.vertexEdges[newVertexId] = NULL,
              !.validVertexIds[g.currentVertexCount] = newVertexId,
              !.vertexIdToValidIndex[newVertexId] = g.currentVertexCount,
              !.currentVertexCount = g.currentVertexCount + 1],
          outVertexId |-> IF hasOut THEN newVertexId ELSE -1,
          assertFailed |-> FALSE]

\* algoGraphAddVertex(graph, vertexData, outVertexId).  hasOut: outVertexId is
\* not NULL; *outVertexId holds -1 before the call.  assertFailed: the
\* ALGO_ASSERT on the free list's head stops the program.
algoGraphAddVertex(g, vertexData, hasOut) ==
    IF g.currentVertexCount >= g.vertexCapacity
    THEN [err |-> kAlgoErrorOperationFailed, graph |-> g, outVertexId |-> -1,
          assertFailed |-> FALSE]
    ELSE LET newVertexId == g.nextFreeVertexId IN
         IF ~(newVertexId >= 0 /\ newVertexId < g.vertexCapacity)
         THEN [err |-> kAlgoErrorNone, graph |-> g, outVertexId |-> -1,
               assertFailed |-> TRUE]
         ELSE [err |-> kAlgoErrorNone,
               graph |-> [g EXCEPT
                   !.nextFreeVertexId = g.vertexData[newVertexId],
                   !.vertexDegrees[newVertexId] = 0,
                   !.vertexEdges[newVertexId] = NULL,
                   !.vertexData[newVertexId] = vertexData,
                   !.validVertexIds[g.currentVertexCount] = newVertexId,
                   !.vertexIdToValidIndex[newVertexId] = g.currentVertexCount,
                   !.currentVertexCount = g.currentVertexCount + 1],
               outVertexId |-> IF hasOut THEN newVertexId ELSE -1,
               assertFailed |-> FALSE]

\* The undirected branch of algoGraphRemoveVertex: for every outgoing edge,
\* remove the edge coming back, then free the outgoing node.  The loop reads
\* outEdge->next after the incoming edge is gone.
RECURSIVE iGraphRemoveUndirectedEdges(_, _, _, _)
iGraphRemoveUndirectedEdges(g, outEdge, vertexId, assertFailed) ==
    IF outEdge = NULL
    THEN [graph |-> g, assertFailed |-> assertFailed]
    ELSE LET destVertexId == iEdgeDestVertex(g, outEdge)
             r  == iGraphRemoveEdgeFromList(g, destVertexId, vertexId)
             g1 == r.graph
         IN  iGraphRemoveUndirectedEdges(
                 [g1 EXCEPT !.edgePool = algoAllocPoolFree(g1.edgePool, outEdge).pool,
                            !.currentEdgeCount = g1.currentEdgeCount - 1],
                 iEdgeNext(g1, outEdge),
                 vertexId,
                 assertFailed \/ g.vertexEdges[destVertexId] = NULL \/ ~r.found)

\* A faulty first loop that frees the outgoing nodes and leaves
\* currentEdgeCount as it was.
RECURSIVE iGraphFreeOutEdgesNoCount(_, _)
iGraphFreeOutEdgesNoCount(g, outEdge) ==
    IF outEdge = NULL
    THEN g
    ELSE iGraphFreeOutEdgesNoCount(
             [g EXCEPT !.edgePool = algoAllocPoolFree(g.edgePool, outEdge).pool],
             iEdgeNext(g, outEdge))

\* The directed branch, first loop: free every outgoing node.
RECURSIVE iGraphFreeOutEdges(_, _)
iGraphFreeOutEdges(g, outEdge) ==
    IF outEdge = NULL
    THEN g
    ELSE iGraphFreeOutEdges(
             [g EXCEPT !.edgePool = algoAllocPoolFree(g.edgePool, outEdge).pool,
                       !.currentEdgeCount = g.currentEdgeCount - 1],
             iEdgeNext(g, outEdge))

\* A faulty second loop that removes the incoming edges and leaves
\* currentEdgeCount as it was.
RECURSIVE iGraphRemoveIncomingEdgesNoCount(_, _, _)
iGraphRemoveIncomingEdgesNoCount(g, iValidVert, vertexId) ==
    IF ~(iValidVert < g.currentVertexCount)
    THEN g
    ELSE LET srcVertexId == g.validVertexIds[iValidVert] IN
         IF ~iGraphIsValidVertexId(g, srcVertexId)
         THEN iGraphRemoveIncomingEdgesNoCount(g, iValidVert + 1, vertexId)
         ELSE iGraphRemoveIncomingEdgesNoCount(
                  iGraphRemoveEdgeFromList(g, srcVertexId, vertexId).graph,
                  iValidVert + 1, vertexId)

\* The directed branch, second loop: search every vertex of validVertexIds
\* for an edge to vertexId and remove it.
RECURSIVE iGraphRemoveIncomingEdges(_, _, _)
iGraphRemoveIncomingEdges(g, iValidVert, vertexId) ==
    IF ~(iValidVert < g.currentVertexCount)
    THEN g
    ELSE LET srcVertexId == g.validVertexIds[iValidVert] IN
         IF ~iGraphIsValidVertexId(g, srcVertexId)
         THEN iGraphRemoveIncomingEdges(g, iValidVert + 1, vertexId)
         ELSE LET r == iGraphRemoveEdgeFromList(g, srcVertexId, vertexId) IN
              iGraphRemoveIncomingEdges(
                  [r.graph EXCEPT !.currentEdgeCount =
                                      @ - (IF r.found THEN 1 ELSE 0)],
                  iValidVert + 1, vertexId)

\* A faulty release that moves the last valid id into the freed place and
\* forgets its reverse lookup.
iGraphReleaseVertexNoReverseLookup(g, vertexId) ==
    LET destValidIndex     == g.vertexIdToValidIndex[vertexId]
        finalValidVertexId == g.validVertexIds[g.currentVertexCount - 1]
    IN  [g EXCEPT
            !.vertexData[vertexId] = g.nextFreeVertexId,
            !.nextFreeVertexId = vertexId,
            !.validVertexIds[destValidIndex] = finalValidVertexId,
            !.currentVertexCount = g.currentVertexCount - 1,
            !.vertexDegrees[vertexId] = -1,
            !.vertexEdges[vertexId] = NULL]

\* The end of algoGraphRemoveVertex: push the slot on the free list, move the
\* last valid id into the slot's place in validVertexIds, mark the slot invalid.
iGraphReleaseVertex(g, vertexId) ==
    LET destValidIndex     == g.vertexIdToValidIndex[vertexId]
        finalValidVertexId == g.validVertexIds[g.currentVertexCount - 1]
    IN  [g EXCEPT
            !.vertexData[vertexId] = g.nextFreeVertexId,
            !.nextFreeVertexId = vertexId,
            !.validVertexIds[destValidIndex] = finalValidVertexId,
            !.vertexIdToValidIndex[finalValidVertexId] = destValidIndex,
            !.currentVertexCount = g.currentVertexCount - 1,
            !.vertexDegrees[vertexId] = -1,
            !.vertexEdges[vertexId] = NULL]

\* algoGraphRemoveVertex(graph, vertexId).
algoGraphRemoveVertex(g, vertexId) ==
    IF ~iGraphIsValidVertexId(g, vertexId)
    THEN [err |-> kAlgoErrorInvalidArgument, graph |-> g, assertFailed |-> FALSE]
    ELSE IF g.edgeMode = kAlgoGraphEdgeUndirected
    THEN LET r == iGraphRemoveUndirectedEdges(g, g.vertexEdges[vertexId], vertexId, FALSE) IN
         [err |-> kAlgoErrorNone,
          graph |-> iGraphReleaseVertex(r.graph, vertexId),
          assertFailed |-> r.assertFailed]
    ELSE LET g1 == iGraphFreeOutEdges(g, g.vertexEdges[vertexId])
             g2 == [g1 EXCEPT !.vertexDegrees[vertexId] = 0,
                              !.vertexEdges[vertexId] = NULL]
             g3 == iGraphRemoveIncomingEdges(g2, 0, vertexId)
         IN  [err |-> kAlgoErrorNone,
              graph |-> iGraphReleaseVertex(g3, vertexId),
              assertFailed |-> FALSE]

\* The five assignments that put a freshly allocated node at the head of
\* srcVertexId's list (the weight field is written and never read).
iGraphLinkEdge(g, srcVertexId, destVertexId, newEdge) ==
    [g EXCEPT
        !.edgePool.mem[iPoolIndexOf(g.edgePool, newEdge)] = destVertexId,
        !.edgeNext[iPoolIndexOf(g.edgePool, newEdge)] = g.vertexEdges[srcVertexId],
        !.vertexEdges[srcVertexId] = newEdge,
        !.vertexDegrees[srcVertexId] = g.vertexDegrees[srcVertexId] + 1]

\* A faulty second half that counts the edge without adding dest->src.
iGraphAddReverseEdgeSkip(g1, srcVertexId, destVertexId) ==
    [err |-> kAlgoErrorNone,
     graph |-> [g1 EXCEPT !.currentEdgeCount = g1.currentEdgeCount + 1]]

\* The second half of algoGraphAddEdge, in an undirected graph: g1 already
\* holds src->dest.
iGraphAddReverseEdge(g1, srcVertexId, destVertexId) ==
    IF iGraphListHasDest(g1, g1.vertexEdges[destVertexId], srcVertexId)
    THEN [err |-> kAlgoErrorNone, graph |-> g1]
    ELSE LET a == algoAllocPoolAlloc(g1.edgePool, TRUE) IN
         IF a.err # kAlgoErrorNone
         THEN [err |-> kAlgoErrorOperationFailed, graph |-> g1]
         ELSE LET g2 == iGraphLinkEdge([g1 EXCEPT !.edgePool = a.pool],
                                       destVertexId, srcVertexId, a.outPtr) IN
              [err |-> kAlgoErrorNone,
               graph |-> [g2 EXCEPT !.currentEdgeCount = g2.currentEdgeCount + 1]]

\* algoGraphAddEdge(graph, srcVertexId, destVertexId).
algoGraphAddEdge(g, srcVertexId, destVertexId) ==
    IF \/ ~iGraphIsValidVertexId(g, srcVertexId)
       \/ ~iGraphIsValidVertexId(g, destVertexId)
       \/ srcVertexId = destVertexId
    THEN [err |-> kAlgoErrorInvalidArgument, graph |-> g]
    ELSE IF iGraphListHasDest(g, g.vertexEdges[srcVertexId], destVertexId)
    THEN [err |-> kAlgoErrorNone, graph |-> g]
    ELSE LET a == algoAllocPoolAlloc(g.edgePool, TRUE) IN
         IF a.err # kAlgoErrorNone
         THEN [err |-> kAlgoErrorOperationFailed, graph |-> g]
         ELSE LET g1 == iGraphLinkEdge([g EXCEPT !.edgePool = a.pool],
                                       srcVertexId, destVertexId, a.outPtr) IN
              IF g.edgeMode = kAlgoGraphEdgeUndirected
              THEN iGraphAddReverseEdge(g1, srcVertexId, destVertexId)
              ELSE [err |-> kAlgoErrorNone,
                    graph |-> [g1 EXCEPT !.currentEdgeCount = g1.currentEdgeCount + 1]]

\* A faulty RemoveEdge that unlinks src->dest only, in either edge mode.
algoGraphRemoveEdgeOneWay(g, srcVertexId, destVertexId) ==
    IF \/ ~iGraphIsValidVertexId(g, srcVertexId)
       \/ ~iGraphIsValidVertexId(g, destVertexId)
    THEN [err |-> kAlgoErrorInvalidArgument, graph |-> g]
    ELSE LET r1 == iGraphRemoveEdgeFromList(g, srcVertexId, destVertexId) IN
         IF ~r1.found
         THEN [err |-> kAlgoErrorOperationFailed, graph |-> g]
         ELSE [err |-> kAlgoErrorNone,
               graph |-> [r1.graph EXCEPT !.currentEdgeCount = @ - 1]]

\* algoGraphRemoveEdge(graph, srcVertexId, destVertexId).
algoGraphRemoveEdge(g, srcVertexId, destVertexId) ==
    IF \/ ~iGraphIsValidVertexId(g, srcVertexId)
       \/ ~iGraphIsValidVertexId(g, destVertexId)
    THEN [err |-> kAlgoErrorInvalidArgument, graph |-> g]
    ELSE LET r1 == iGraphRemoveEdgeFromList(g, srcVertexId, destVertexId) IN
         IF ~r1.found
         THEN [err |-> kAlgoErrorOperationFailed, graph |-> g]
         ELSE IF g.edgeMode = kAlgoGraphEdgeUndirected
         THEN LET r2 == iGraphRemoveEdgeFromList(r1.graph, destVertexId, srcVertexId) IN
              IF ~r2.found
              THEN [err |-> kAlgoErrorOperationFailed, graph |-> r1.graph]
              ELSE [err |-> kAlgoErrorNone,
                    graph |-> [r2.graph EXCEPT !.currentEdgeCount = @ - 1]]
         ELSE [err |-> kAlgoErrorNone,
               graph |-> [r1.graph EXCEPT !.currentEdgeCount = @ - 1]]

\* The destinations of the list that starts at edge, in list order.
RECURSIVE iGraphListDests(_, _)
iGraphListDests(g, edge) ==
    IF edge = NULL THEN <<>>
    ELSE <<iEdgeDestVertex(g, edge)>> \o iGraphListDests(g, iEdgeNext(g, edge))

\* The block addresses of the list that starts at edge, in list order.
RECURSIVE iGraphListNodes(_, _)
iGraphListNodes(g, edge) ==
    IF edge = NULL THEN <<>>
    ELSE <<edge>> \o iGraphListNodes(g, iEdgeNext(g, edge))

\* validEdgeNodeCount of algoGraphValidate: the nodes in the lists of the
\* valid vertices iVertex..vertexCapacity-1.
RECURSIVE iGraphCountEdgeNodes(_, _)
iGraphCountEdgeNodes(g, iVertex) ==
    IF ~(iVertex < g.vertexCapacity) THEN 0
    ELSE (IF iGraphIsValidVertexId(g, iVertex)
          THEN Len(iGraphListDests(g, g.vertexEdges[iVertex]))
          ELSE 0) + iGraphCountEdgeNodes(g, iVertex + 1)

\* The ids met by following the free vertex list from nextFreeVertexId until
\* a negative id.  The walk of algoGraphValidate has no other exit; here it
\* also ends at an id outside vertexData[] and after fuel steps.
RECURSIVE iGraphFreeList(_, _, _)
iGraphFreeList(g, nextFreeVertexId, fuel) ==
    IF nextFreeVertexId < 0 \/ fuel = 0 THEN <<>>
    ELSE IF nextFreeVertexId >= g.vertexCapacity THEN <<nextFreeVertexId>>
    ELSE <<nextFreeVertexId>> \o
         iGraphFreeList(g, g.vertexData[nextFreeVertexId], fuel - 1)

\* algoGraphValidate(graph): kAlgoErrorNone when no check fails.  (Its check 2
\* compares edgeCapacity with itself, so only a negative edge count fails it.)
algoGraphValidate(g) ==
    LET vertices == 0..(g.vertexCapacity - 1)
        valid    == {v \in vertices : iGraphIsValidVertexId(g, v)}
        freeList == iGraphFreeList(g, g.nextFreeVertexId, g.vertexCapacity + 1)
        ok ==
            /\ ~(g.currentEdgeCount < 0 \/ g.edgeCapacity > g.edgeCapacity)
            /\ ~(g.currentVertexCount < 0 \/ g.currentVertexCount > g.vertexCapacity)
            /\ \A v \in valid :
                  LET dests == iGraphListDests(g, g.vertexEdges[v]) IN
                  /\ \A i \in 1..Len(dests) : iGraphIsValidVertexId(g, dests[i])
                  /\ Len(dests) = g.vertexDegrees[v]
            /\ iGraphCountEdgeNodes(g, 0) = g.currentEdgeCount * iGraphNodesPerEdge(g.edgeMode)
            /\ Cardinality(valid) = g.currentVertexCount
            /\ \A i \in 1..Len(freeList) : ~iGraphIsValidVertexId(g, freeList[i])
            /\ g.vertexCapacity - g.currentVertexCount = Len(freeList)
            /\ \A iValidVert \in 0..(g.currentVertexCount - 1) :
                  /\ iGraphIsValidVertexId(g, g.validVertexIds[iValidVert])
                  /\ g.vertexIdToValidIndex[g.validVertexIds[iValidVert]] = iValidVert
    IN  IF ok THEN kAlgoErrorNone ELSE kAlgoErrorInvalidArgument

\* The slots of the graph and the valid ones among them.
GraphSlots(g) == 0..(g.vertexCapacity - 1)
GraphValidIds(g) == {v \in GraphSlots(g) : g.vertexDegrees[v] >= 0}

\* The vertex ids a client passes: every slot, and an id on each side of the
\* range.
GraphVertexIdArgs(g) == -1..g.vertexCapacity

\* The graphs of the model: every vertexCapacity and edgeCapacity up to
\* three vertices and two edges, in both edge modes.
GraphVertexCapacities == {1, 2, 3}
GraphEdgeCapacities == {1, 2}

GraphInit ==
    /\ \E vc \in GraphVertexCapacities, ec \in GraphEdgeCapacities,
          mode \in GraphEdgeModes, garbage \in GraphGarbageWords :
          graph = algoGraphCreate(vc, ec, mode, garbage)
    /\ graphFresh = TRUE

GraphIdle ==
    /\ graph = algoGraphCreate(1, 1, kAlgoGraphEdgeDirected, 0)
    /\ graphFresh = TRUE

\* The client adds a vertex.
GraphAddVertex ==
    \E data \in GraphVertexData, hasOut \in BOOLEAN :
        /\ graph' = algoGraphAddVertex(graph, data, hasOut).graph
        /\ UNCHANGED graphFresh
        /\ UNCHANGED <<poolVars, stackVars, queueVars, heapVars, bfsVars, dfsVars, ctorVars>>

\* The client removes a vertex.
GraphRemoveVertex ==
    \E vertexId \in GraphVertexIdArgs(graph) :
        LET r == algoGraphRemoveVertex(graph, vertexId) IN
        /\ graph' = r.graph
        /\ graphFresh' = (graphFresh /\ r.err # kAlgoErrorNone)
        /\ UNCHANGED <<poolVars, stackVars, queueVars, heapVars, bfsVars, dfsVars, ctorVars>>

\* The client adds an edge.
GraphAddEdge ==
    \E srcVertexId \in GraphVertexIdArgs(graph), destVertexId \in GraphVertexIdArgs(graph) :
        /\ graph' = algoGraphAddEdge(graph, srcVertexId, destVertexId).graph
        /\ UNCHANGED graphFresh
        /\ UNCHANGED <<poolVars, stackVars, queueVars, heapVars, bfsVars, dfsVars, ctorVars>>

\* The client removes an edge.
GraphRemoveEdge ==
    \E srcVertexId \in GraphVertexIdArgs(graph), destVertexId \in GraphVertexIdArgs(graph) :
        /\ graph' = algoGraphRemoveEdge(graph, srcVertexId, destVertexId).graph
        /\ UNCHANGED graphFresh
        /\ UNCHANGED <<poolVars, stackVars, queueVars, heapVars, bfsVars, dfsVars, ctorVars>>

\* The client replaces a vertex's data.
GraphSetVertexData ==
    \E vertexId \in GraphVertexIdArgs(graph), value \in GraphVertexData :
        /\ graph' = algoGraphSetVertexData(graph, vertexId, value).graph
        /\ UNCHANGED graphFresh
        /\ UNCHANGED <<poolVars, stackVars, queueVars, heapVars, bfsVars, dfsVars, ctorVars>>

(***************************************************************************)
(* Graph: queries                                                          *)
(***************************************************************************)

\* The copy loop of algoGraphGetVertexEdges from iEdge on.  assertFailed: the
\* list ended before edgeCount nodes (the loop stops there), or goes on after
\* them.
RECURSIVE iGraphCopyDests(_, _, _, _, _)
iGraphCopyDests(g, nextEdge, iEdge, edgeCount, outDestVertexIds) ==
    IF ~(iEdge < edgeCount)
    THEN [outDestVertexIds |-> outDestVertexIds, assertFailed |-> nextEdge # NULL]
    ELSE IF nextEdge = NULL
    THEN [outDestVertexIds |-> outDestVertexIds, assertFailed |-> TRUE]
    ELSE iGraphCopyDests(g, iEdgeNext(g, nextEdge), iEdge + 1, edgeCount,
             [outDestVertexIds EXCEPT ![iEdge] = iEdgeDestVertex(g, nextEdge)])

\* A faulty query that writes the destinations oldest edge first.
algoGraphGetVertexEdgesReversed(g, srcVertexId, vertexDegree, hasOut, outDestVertexIds) ==
    IF \/ ~hasOut
       \/ ~iGraphIsValidVertexId(g, srcVertexId)
       \/ g.vertexDegrees[srcVertexId] # vertexDegree
    THEN [err |-> kAlgoErrorInvalidArgument, outDestVertexIds |-> outDestVertexIds,
          assertFailed |-> FALSE]
    ELSE LET r == iGraphCopyDests(g, g.vertexEdges[srcVertexId], 0,
                                  g.vertexDegrees[srcVertexId], outDestVertexIds)
         IN  [err |-> kAlgoErrorNone,
              outDestVertexIds |->
                  [i \in DOMAIN outDestVertexIds |->
                      IF i < vertexDegree THEN r.outDestVertexIds[vertexDegree - 1 - i]
                      ELSE outDestVertexIds[i]],
              assertFailed |-> r.assertFailed]

\* algoGraphGetVertexEdges(graph, srcVertexId, vertexDegree, outDestVertexIds).
\* hasOut: outDestVertexIds is not NULL; it is the caller's array as it is
\* before the call.
algoGraphGetVertexEdges(g, srcVertexId, vertexDegree, hasOut, outDestVertexIds) ==
    IF \/ ~hasOut
       \/ ~iGraphIsValidVertexId(g, srcVertexId)
       \/ g.vertexDegrees[srcVertexId] # vertexDegree
    THEN [err |-> kAlgoErrorInvalidArgument, outDestVertexIds |-> outDestVertexIds,
          assertFailed |-> FALSE]
    ELSE LET r == iGraphCopyDests(g, g.vertexEdges[srcVertexId], 0,
                                  g.vertexDegrees[srcVertexId], outDestVertexIds)
         IN  [err |-> kAlgoErrorNone, outDestVertexIds |-> r.outDestVertexIds,
              assertFailed |-> r.assertFailed]

\* algoGraphGetVertexData(graph, vertexId, outValue).  hasOut: outValue is not
\* NULL; *outValue holds -1 before the call.
algoGraphGetVertexData(g, vertexId, hasOut) ==
    IF ~hasOut \/ ~iGraphIsValidVertexId(g, vertexId)
    THEN [err |-> kAlgoErrorInvalidArgument, outValue |-> -1]
    ELSE [err |-> kAlgoErrorNone, outValue |-> g.vertexData[vertexId]]

(***************************************************************************)
(* Breadth-first search                                                    *)
(***************************************************************************)

\* iTestBit and iSetBit on a bit set that has one bit per vertex slot.
iTestBit(bits, index) == bits[index]
iSetBit(bits, index) == [bits EXCEPT ![index] = 1]

\* A faulty state whose queue has room for one vertex only.
algoGraphBfsStateCreateSmallQueue(g) ==
    [ isVertexDiscovered |-> [v \in 0..(g.vertexCapacity - 1) |-> 0],
      isVertexProcessed  |-> [v \in 0..(g.vertexCapacity - 1) |-> 0],
      vertexParents      |-> [v \in 0..(g.vertexCapacity - 1) |-> -1],
      vertexQueue        |-> algoQueueCreate(1) ]

\* algoGraphBfsStateCreate(outState, graph, buffer, bufferSize), for valid
\* arguments: both bit sets cleared, every parent -1, an empty queue of
\* vertexCapacity elements.
algoGraphBfsStateCreate(g) ==
    [ isVertexDiscovered |-> [v \in 0..(g.vertexCapacity - 1) |-> 0],
      isVertexProcessed  |-> [v \in 0..(g.vertexCapacity - 1) |-> 0],
      vertexParents      |-> [v \in 0..(g.vertexCapacity - 1) |-> -1],
      vertexQueue        |-> algoQueueCreate(g.vertexCapacity) ]

\* What a callback is called with; "discover" marks the moment a vertex is
\* enqueued (no callback is called then).
BfsEvent(func, v0, v1) == [func |-> func, v0 |-> v0, v1 |-> v1]

\* A faulty edge loop that makes v0 the parent of v1 at every edge, also when
\* v1 was discovered before.
RECURSIVE iBfsExploreEdgesReparent(_, _, _, _, _)
iBfsExploreEdgesReparent(g, run, v0, e, edgeCount) ==
    IF e = NULL
    THEN run
    ELSE LET st == run.state
             v1 == iEdgeDestVertex(g, e)
             isNew == iTestBit(st.isVertexDiscovered, v1) = 0
             st1 == [st EXCEPT !.vertexParents[v1] = IF v1 = v0 THEN @ ELSE v0]
         IN  iBfsExploreEdgesReparent(g,
                 [state |-> IF isNew
                            THEN [st1 EXCEPT
                                    !.isVertexDiscovered = iSetBit(st.isVertexDiscovered, v1),
                                    !.vertexQueue = algoQueueInsert(st.vertexQueue, v1).queue]
                            ELSE st1,
                  events |-> IF isNew
                             THEN Append(run.events, BfsEvent("discover", v0, v1))
                             ELSE run.events,
                  assertFailed |-> run.assertFailed],
                 v0, iEdgeNext(g, e), edgeCount + 1)

\* A faulty edge loop that calls edgeFunc at every edge, also in an undirected
\* graph when v1 was processed before.
RECURSIVE iBfsExploreEdgesAlwaysCall(_, _, _, _, _)
iBfsExploreEdgesAlwaysCall(g, run, v0, e, edgeCount) ==
    IF e = NULL
    THEN run
    ELSE LET st == run.state
             v1 == iEdgeDestVertex(g, e)
             isNew == iTestBit(st.isVertexDiscovered, v1) = 0
             events1 == Append(run.events, BfsEvent("edgeFunc", v0, v1))
         IN  iBfsExploreEdgesAlwaysCall(g,
                 [state |-> IF isNew
                            THEN [st EXCEPT
                                    !.isVertexDiscovered = iSetBit(st.isVertexDiscovered, v1),
                                    !.vertexQueue = algoQueueInsert(st.vertexQueue, v1).queue,
                                    !.vertexParents[v1] = v0]
                            ELSE st,
                  events |-> IF isNew
                             THEN Append(events1, BfsEvent("discover", v0, v1))
                             ELSE events1,
                  assertFailed |-> run.assertFailed],
                 v0, iEdgeNext(g, e), edgeCount + 1)

\* The while loop of algoGraphBfs over the edges of v0, from node e on.
\* run: the search state, the events so far, and whether an ALGO_ASSERT failed.
RECURSIVE iBfsExploreEdges(_, _, _, _, _)
iBfsExploreEdges(g, run, v0, e, edgeCount) ==
    IF e = NULL
    THEN [run EXCEPT !.assertFailed = @ \/ edgeCount # g.vertexDegrees[v0]]
    ELSE LET st == run.state
             v1 == iEdgeDestVertex(g, e)
             callEdgeFunc == \/ iTestBit(st.isVertexProcessed, v1) = 0
                             \/ g.edgeMode = kAlgoGraphEdgeDirected
             isNew == iTestBit(st.isVertexDiscovered, v1) = 0
             events1 == IF callEdgeFunc
                        THEN Append(run.events, BfsEvent("edgeFunc", v0, v1))
                        ELSE run.events
         IN  iBfsExploreEdges(g,
                 [state |-> IF isNew
                            THEN [st EXCEPT
                                    !.isVertexDiscovered = iSetBit(st.isVertexDiscovered, v1),
                                    !.vertexQueue = algoQueueInsert(st.vertexQueue, v1).queue,
                                    !.vertexParents[v1] = v0]
                            ELSE st,
                  events |-> IF isNew
                             THEN Append(events1, BfsEvent("discover", v0, v1))
                             ELSE events1,
                  assertFailed |-> \/ run.assertFailed
                                   \/ edgeCount + 1 > g.vertexDegrees[v0]
                                   \/ ~iGraphIsValidVertexId(g, v1)
                                   \/ (isNew /\ iTestBit(st.isVertexProcessed, v1) # 0)],
                 v0, iEdgeNext(g, e), edgeCount + 1)

\* A faulty loop that returns after the first vertex it dequeued.
iBfsLoopOnce(g, run) ==
    LET removed == algoQueueRemove(run.state.vertexQueue, TRUE)
        v0      == removed.outElem
        run1    == [state |-> [run.state EXCEPT
                                  !.vertexQueue = removed.queue,
                                  !.isVertexProcessed =
                                      iSetBit(run.state.isVertexProcessed, v0)],
                    events |-> Append(run.events, BfsEvent("vertexFuncEarly", v0, -1)),
                    assertFailed |-> run.assertFailed]
        run2    == iBfsExploreEdges(g, run1, v0, g.vertexEdges[v0], 0)
    IN  [run2 EXCEPT !.events = Append(@, BfsEvent("vertexFuncLate", v0, -1))]

\* The do ... while (currentQueueSize > 0) loop of algoGraphBfs.  A failed
\* assertion on the dequeued vertex ends the run.
RECURSIVE iBfsLoop(_, _)
iBfsLoop(g, run) ==
    LET removed == algoQueueRemove(run.state.vertexQueue, TRUE)
        v0      == removed.outElem
    IN  IF removed.err # kAlgoErrorNone \/ ~iGraphIsValidVertexId(g, v0)
        THEN [run EXCEPT !.assertFailed = TRUE]
        ELSE LET run1 == [state |-> [run.state EXCEPT
                                        !.vertexQueue = removed.queue,
                                        !.isVertexProcessed =
                                            iSetBit(run.state.isVertexProcessed, v0)],
                          events |-> Append(run.events, BfsEvent("vertexFuncEarly", v0, -1)),
                          assertFailed |-> \/ run.assertFailed
                                           \/ iTestBit(run.state.isVertexProcessed, v0) # 0]
                 run2 == iBfsExploreEdges(g, run1, v0, g.vertexEdges[v0], 0)
                 run3 == [run2 EXCEPT
                             !.events = Append(@, BfsEvent("vertexFuncLate", v0, -1))]
             IN  IF algoQueueGetCurrentSize(run3.state.vertexQueue) > 0
                 THEN iBfsLoop(g, run3)
                 ELSE run3

\* algoGraphBfs(graph, bfsState, rootVertexId, callbacks), for a state that
\* was created for this graph.  events lists the callback invocations in order.
algoGraphBfs(g, bfsState, rootVertexId) ==
    IF ~iGraphIsValidVertexId(g, rootVertexId)
    THEN [err |-> kAlgoErrorInvalidArgument, state |-> bfsState, events |-> <<>>,
          assertFailed |-> FALSE]
    ELSE LET run == iBfsLoop(g,
                      [state |-> [bfsState EXCEPT
                                    !.vertexQueue =
                                        algoQueueInsert(bfsState.vertexQueue, rootVertexId).queue,
                                    !.isVertexDiscovered =
                                        iSetBit(bfsState.isVertexDiscovered, rootVertexId)],
                       events |-> <<>>,
                       assertFailed |-> FALSE])
         IN  [err |-> kAlgoErrorNone, state |-> run.state, events |-> run.events,
              assertFailed |-> run.assertFailed]

\* The graphs a search runs on: three vertices and up to three edges.
BfsVertexCapacities == {3}
BfsEdgeCapacities == {3}

\* No search state exists yet.
BfsNone == [pc |-> "none"]

BfsIdle == bfs = BfsNone

BfsInit ==
    /\ \E vc \in BfsVertexCapacities, ec \in BfsEdgeCapacities,
          mode \in GraphEdgeModes, garbage \in GraphGarbageWords :
          graph = algoGraphCreate(vc, ec, mode, garbage)
    /\ graphFresh = TRUE
    /\ bfs = BfsNone

\* The client builds the graph before it searches it.
BfsAddVertex ==
    /\ bfs.pc = "none"
    /\ graph' = algoGraphAddVertex(graph, 0, TRUE).graph
    /\ UNCHANGED <<graphFresh, bfs>>
    /\ UNCHANGED <<poolVars, stackVars, queueVars, heapVars, dfsVars, ctorVars>>

BfsAddEdge ==
    /\ bfs.pc = "none"
    /\ \E srcVertexId \in GraphSlots(graph), destVertexId \in GraphSlots(graph) :
          graph' = algoGraphAddEdge(graph, srcVertexId, destVertexId).graph
    /\ UNCHANGED <<graphFresh, bfs>>
    /\ UNCHANGED <<poolVars, stackVars, queueVars, heapVars, dfsVars, ctorVars>>

\* The client removes a vertex, once at most, so that searches also run on
\* graphs with a free slot among the ids and with re-used slots and nodes.
BfsRemoveVertex ==
    /\ bfs.pc = "none"
    /\ graphFresh
    /\ \E vertexId \in GraphSlots(graph) :
          LET r == algoGraphRemoveVertex(graph, vertexId) IN
          /\ graph' = r.graph
          /\ graphFresh' = (graphFresh /\ r.err # kAlgoErrorNone)
    /\ UNCHANGED bfs
    /\ UNCHANGED <<poolVars, stackVars, queueVars, heapVars, dfsVars, ctorVars>>

\* The client creates the search state for the graph.
BfsStateCreate ==
    /\ bfs.pc = "none"
    /\ bfs' = [pc |-> "created", state |-> algoGraphBfsStateCreate(graph)]
    /\ UNCHANGED graphVars
    /\ UNCHANGED <<poolVars, stackVars, queueVars, heapVars, dfsVars, ctorVars>>

\* The client runs the search from a root on the freshly created state.
BfsRun ==
    /\ bfs.pc = "created"
    /\ \E rootVertexId \in GraphVertexIdArgs(graph) :
          LET r == algoGraphBfs(graph, bfs.state, rootVertexId) IN
          bfs' = IF r.err = kAlgoErrorNone
                 THEN [pc |-> "done", state |-> r.state, root |-> rootVertexId,
                       events |-> r.events, assertFailed |-> r.assertFailed]
                 ELSE bfs
    /\ UNCHANGED graphVars
    /\ UNCHANGED <<poolVars, stackVars, queueVars, heapVars, dfsVars, ctorVars>>

(***************************************************************************)
(* Depth-first search                                                      *)
(***************************************************************************)

\* sizeof(AlgoGraphDfsStateImpl) and sizeof(int32_t), sizeof(AlgoGraphEdge*)
\* on an LP64 build.
SizeofAlgoGraphDfsStateImpl == 88
SizeofInt32 == 4
SizeofPointer == 8

\* algoGraphDfsStateComputeBufferSize(&size, graph), for non-null arguments.
algoGraphDfsStateComputeBufferSize(g) ==
    LET vertexCapacityRounded == ((g.vertexCapacity + 31) \div 32) * 32
        discoveredSize == (vertexCapacityRounded * SizeofInt32) \div 32
        processedSize  == (vertexCapacityRounded * SizeofInt32) \div 32
        parentsSize    == g.vertexCapacity * SizeofInt32
        entryTimeSize  == g.vertexCapacity * SizeofInt32
        exitTimeSize   == g.vertexCapacity * SizeofInt32
        nextEdgeSize   == g.vertexCapacity * SizeofPointer
        stackSize      == algoStackComputeBufferSize(g.vertexCapacity).size
    IN  [err |-> kAlgoErrorNone,
         size |-> SizeofAlgoGraphDfsStateImpl + discoveredSize + processedSize
                      + parentsSize + entryTimeSize + exitTimeSize + nextEdgeSize
                      + stackSize]

\* A faulty Create whose stack has room for one vertex only.
algoGraphDfsStateCreateSmallStack(g, bufferSize) ==
    IF bufferSize < algoGraphDfsStateComputeBufferSize(g).size
    THEN [err |-> kAlgoErrorInvalidArgument, state |-> NULL]
    ELSE [err |-> kAlgoErrorNone,
          state |->
            [ currentTime        |-> 0,
              isVertexDiscovered |-> [v \in 0..(g.vertexCapacity - 1) |-> 0],
              isVertexProcessed  |-> [v \in 0..(g.vertexCapacity - 1) |-> 0],
              vertexParents      |-> [v \in 0..(g.vertexCapacity - 1) |-> -1],
              vertexEntryTime    |-> [v \in 0..(g.vertexCapacity - 1) |-> 0],
              vertexExitTime     |-> [v \in 0..(g.vertexCapacity - 1) |-> 0],
              vertexNextEdge     |-> g.vertexEdges,
              vertexStack        |-> algoStackCreate(1,
                                         algoStackComputeBufferSize(g.vertexCapacity).size) ]]

\* algoGraphDfsStateCreate(outState, graph, buffer, bufferSize), for non-null
\* arguments: time 0, both bit sets and both time arrays cleared, every
\* parent -1, the cursors copied from graph->vertexEdges, an empty stack of
\* vertexCapacity elements.
algoGraphDfsStateCreate(g, bufferSize) ==
    IF bufferSize < algoGraphDfsStateComputeBufferSize(g).size
    THEN [err |-> kAlgoErrorInvalidArgument, state |-> NULL]
    ELSE [err |-> kAlgoErrorNone,
          state |->
            [ currentTime        |-> 0,
              isVertexDiscovered |-> [v \in 0..(g.vertexCapacity - 1) |-> 0],
              isVertexProcessed  |-> [v \in 0..(g.vertexCapacity - 1) |-> 0],
              vertexParents      |-> [v \in 0..(g.vertexCapacity - 1) |-> -1],
              vertexEntryTime    |-> [v \in 0..(g.vertexCapacity - 1) |-> 0],
              vertexExitTime     |-> [v \in 0..(g.vertexCapacity - 1) |-> 0],
              vertexNextEdge     |-> g.vertexEdges,
              vertexStack        |-> algoStackCreate(g.vertexCapacity,
                                         algoStackComputeBufferSize(g.vertexCapacity).size) ]]

\* algoGraphDfsStateIsVertexProcessed(dfsState, vertexId, &out), non-null
\* arguments; *out is left alone on failure.
algoGraphDfsStateIsVertexProcessed(g, dfsState, vertexId, out) ==
    IF vertexId < 0 \/ vertexId >= g.vertexCapacity
    THEN [err |-> kAlgoErrorInvalidArgument, outIsProcessed |-> out]
    ELSE [err |-> kAlgoErrorNone,
          outIsProcessed |-> iTestBit(dfsState.isVertexProcessed, vertexId)]

\* IGraphEdgeType
kGraphEdgeTypeTree == 0
kGraphEdgeTypeBack == 1
kGraphEdgeTypeForward == 2
kGraphEdgeTypeCross == 3

\* The callbacks a search is run with, each by the name of the function:
\* "NULL" for a null pointer, "client" for a client's own function (which
\* changes nothing here), or one of the two callbacks of the topological sort.
NoCallback == "NULL"
DfsCallbacks(vertexFuncEarly, edgeFunc, vertexFuncLate) ==
    [vertexFuncEarly |-> vertexFuncEarly, edgeFunc |-> edgeFunc,
     vertexFuncLate |-> vertexFuncLate]

\* A faulty classification that compares exit times where the code compares
\* entry times.
iGraphTopoSortEdgeTypeByExitTime(dfsState, v0, v1) ==
    IF dfsState.vertexParents[v1] = v0
    THEN kGraphEdgeTypeTree
    ELSE IF /\ iTestBit(dfsState.isVertexDiscovered, v1) # 0
            /\ iTestBit(dfsState.isVertexProcessed, v1) = 0
    THEN kGraphEdgeTypeBack
    ELSE IF /\ iTestBit(dfsState.isVertexProcessed, v1) # 0
            /\ dfsState.vertexExitTime[v1] > dfsState.vertexExitTime[v0]
    THEN kGraphEdgeTypeForward
    ELSE IF /\ iTestBit(dfsState.isVertexProcessed, v1) # 0
            /\ dfsState.vertexExitTime[v1] < dfsState.vertexExitTime[v0]
    THEN kGraphEdgeTypeCross
    ELSE -1

\* The edge type iGraphTopoSortEdge computes for v0->v1 in the state dfsState;
\* -1 when no case applies (its ALGO_ASSERT(0)).
iGraphTopoSortEdgeType(dfsState, v0, v1) ==
    IF dfsState.vertexParents[v1] = v0
    THEN kGraphEdgeTypeTree
    ELSE IF /\ iTestBit(dfsState.isVertexDiscovered, v1) # 0
            /\ iTestBit(dfsState.isVertexProcessed, v1) = 0
    THEN kGraphEdgeTypeBack
    ELSE IF /\ iTestBit(dfsState.isVertexProcessed, v1) # 0
            /\ dfsState.vertexEntryTime[v1] > dfsState.vertexEntryTime[v0]
    THEN kGraphEdgeTypeForward
    ELSE IF /\ iTestBit(dfsState.isVertexProcessed, v1) # 0
            /\ dfsState.vertexEntryTime[v1] < dfsState.vertexEntryTime[v0]
    THEN kGraphEdgeTypeCross
    ELSE -1

\* iGraphTopoSortEdge(graph, dfsState, v0, v1, userData): TRUE when one of its
\* assertions fails (a back edge, or an edge of no type).
iGraphTopoSortEdge(dfsState, v0, v1) ==
    iGraphTopoSortEdgeType(dfsState, v0, v1) \in {kGraphEdgeTypeBack, -1}

\* iGraphTopoSortVertexLate(graph, dfsState, vertexId, results): the vertex is
\* written at nextFreeIndex, which then moves down.  A failed assertion on
\* nextFreeIndex is recorded and nothing is written.
iGraphTopoSortVertexLate(g, results, vertexId) ==
    IF results.nextFreeIndex >= 0 /\ results.nextFreeIndex < g.currentVertexCount
    THEN [results |-> [sortedVertices |->
                           [results.sortedVertices EXCEPT ![results.nextFreeIndex] = vertexId],
                       nextFreeIndex |-> results.nextFreeIndex - 1],
          assertFailed |-> FALSE]
    ELSE [results |-> [results EXCEPT !.nextFreeIndex = @ - 1], assertFailed |-> TRUE]

\* The bits of a search state, as the state walk of a run records them.
DfsBits(dfsState) ==
    [discovered |-> dfsState.isVertexDiscovered, processed |-> dfsState.isVertexProcessed]

\* A callback invocation, or the assignment of a parent ("parent": no
\* callback), made in the iteration that leads to entry number step of the
\* state walk, with the bits the search state has at that moment.
DfsEvent(func, v0, v1, step, dfsState) ==
    [func |-> func, v0 |-> v0, v1 |-> v1, step |-> step, bits |-> DfsBits(dfsState)]

\* The stack of a search state, bottom first, with the bits of that moment, as
\* a run records it after it pushed its root and after each iteration.
DfsStackSnapshot(dfsState) ==
    [contents |-> StackContents(dfsState.vertexStack), bits |-> DfsBits(dfsState)]

\* The call of callbacks.edgeFunc(graph, dfsState, v0, v1, userData) in run;
\* run.edgeStates keeps the dfsState each call was made with.
iDfsCallEdgeFunc(g, run, callbacks, v0, v1) ==
    IF callbacks.edgeFunc = NoCallback
    THEN run
    ELSE [run EXCEPT
            !.events = Append(@, DfsEvent("edgeFunc", v0, v1, Len(run.steps) + 1, run.state)),
            !.edgeStates = Append(@, run.state),
            !.assertFailed = \/ @
                             \/ /\ callbacks.edgeFunc = "iGraphTopoSortEdge"
                                /\ iGraphTopoSortEdge(run.state, v0, v1)]

\* The call of callbacks.vertexFuncEarly(graph, dfsState, v0, userData) in run.
iDfsCallVertexFuncEarly(g, run, callbacks, v0) ==
    IF callbacks.vertexFuncEarly = NoCallback
    THEN run
    ELSE [run EXCEPT
            !.events = Append(@, DfsEvent("vertexFuncEarly", v0, -1, Len(run.steps) + 1, run.state))]

\* The call of callbacks.vertexFuncLate(graph, dfsState, v0, userData) in run;
\* userData is the IGraphTopoSortResults of the topological sort.
iDfsCallVertexFuncLate(g, run, callbacks, v0) ==
    IF callbacks.vertexFuncLate = NoCallback
    THEN run
    ELSE LET late == iGraphTopoSortVertexLate(g, run.userData, v0)
             isTopo == callbacks.vertexFuncLate = "iGraphTopoSortVertexLate"
         IN  [run EXCEPT
                !.events = Append(@, DfsEvent("vertexFuncLate", v0, -1, Len(run.steps) + 1, run.state)),
                !.userData = IF isTopo THEN late.results ELSE @,
                !.assertFailed = @ \/ (isTopo /\ late.assertFailed)]

\* A faulty discovery step that calls vertexFuncEarly every time v0 is popped.
iDfsDiscoverAlwaysCall(g, run, callbacks, v0) ==
    IF iTestBit(run.state.isVertexDiscovered, v0) = 0
    THEN iDfsCallVertexFuncEarly(g,
             [run EXCEPT
                !.state.isVertexDiscovered = iSetBit(@, v0),
                !.state.currentTime = @ + 1,
                !.state.vertexEntryTime[v0] = run.state.currentTime + 1],
             callbacks, v0)
    ELSE iDfsCallVertexFuncEarly(g, run, callbacks, v0)

\* One iteration of the while loop of algoGraphDfs, after v0 was popped and
\* found valid: the if (v0 is not discovered) block.
iDfsDiscover(g, run, callbacks, v0) ==
    IF iTestBit(run.state.isVertexDiscovered, v0) = 0
    THEN iDfsCallVertexFuncEarly(g,
             [run EXCEPT
                !.state.isVertexDiscovered = iSetBit(@, v0),
                !.state.currentTime = @ + 1,
                !.state.vertexEntryTime[v0] = run.state.currentTime + 1],
             callbacks, v0)
    ELSE run

\* A faulty edge step that also reports, in an undirected graph, the edge that
\* leads back to the parent of v0.
iDfsFollowEdgeReportParentEdge(g, run, callbacks, v0) ==
    LET edge == run.state.vertexNextEdge[v0]
        dest == iEdgeDestVertex(g, edge)
        run1 == [run EXCEPT
                    !.state.vertexNextEdge[v0] = iEdgeNext(g, edge),
                    !.state.vertexStack = algoStackPush(@, v0).stack]
    IN  IF iTestBit(run1.state.isVertexDiscovered, dest) = 0
        THEN LET run2 == [run1 EXCEPT
                            !.state.vertexParents[dest] = v0,
                            !.events = Append(@, DfsEvent("parent", v0, dest,
                                                          Len(run.steps) + 1, run1.state)),
                            !.assertFailed = @ \/ ~(run1.state.vertexParents[dest] < 0)]
                 run3 == iDfsCallEdgeFunc(g, run2, callbacks, v0, dest)
             IN  [run3 EXCEPT !.state.vertexStack = algoStackPush(@, dest).stack]
        ELSE IF \/ iTestBit(run1.state.isVertexProcessed, dest) = 0
                \/ g.edgeMode = kAlgoGraphEdgeDirected
        THEN iDfsCallEdgeFunc(g, run1, callbacks, v0, dest)
        ELSE run1

\* A faulty edge step that does not put v0 back on the stack.
iDfsFollowEdgeNoRepush(g, run, callbacks, v0) ==
    LET edge == run.state.vertexNextEdge[v0]
        dest == iEdgeDestVertex(g, edge)
        run1 == [run EXCEPT !.state.vertexNextEdge[v0] = iEdgeNext(g, edge)]
    IN  IF iTestBit(run1.state.isVertexDiscovered, dest) = 0
        THEN LET run2 == [run1 EXCEPT !.state.vertexParents[dest] = v0]
                 run3 == iDfsCallEdgeFunc(g, run2, callbacks, v0, dest)
             IN  [run3 EXCEPT !.state.vertexStack = algoStackPush(@, dest).stack]
        ELSE iDfsCallEdgeFunc(g, run1, callbacks, v0, dest)

\* The if (NULL != vertexNextEdge[v0]) block: the cursor of v0 moves on, v0
\* goes back on the stack, and the edge to dest is a tree edge (dest not
\* discovered: parent set, edgeFunc, dest pushed) or is reported by edgeFunc
\* unless, in an undirected graph, dest is processed or is the parent of v0.
\* The results of algoStackPush are not looked at; run.stackFailed keeps
\* whether one of them was an error.
iDfsFollowEdge(g, run, callbacks, v0) ==
    LET edge == run.state.vertexNextEdge[v0]
        dest == iEdgeDestVertex(g, edge)
        run1 == [run EXCEPT
                    !.state.vertexNextEdge[v0] = iEdgeNext(g, edge),
                    !.state.vertexStack = algoStackPush(@, v0).stack,
                    !.stackFailed = @ \/ algoStackPush(run.state.vertexStack, v0).err
                                             # kAlgoErrorNone]
    IN  IF iTestBit(run1.state.isVertexDiscovered, dest) = 0
        THEN LET run2 == [run1 EXCEPT
                            !.state.vertexParents[dest] = v0,
                            !.events = Append(@, DfsEvent("parent", v0, dest,
                                                          Len(run.steps) + 1, run1.state)),
                            !.assertFailed = @ \/ ~(run1.state.vertexParents[dest] < 0)]
                 run3 == iDfsCallEdgeFunc(g, run2, callbacks, v0, dest)
             IN  [run3 EXCEPT
                    !.state.vertexStack = algoStackPush(@, dest).stack,
                    !.stackFailed = @ \/ algoStackPush(run3.state.vertexStack, dest).err
                                             # kAlgoErrorNone]
        ELSE IF \/ /\ iTestBit(run1.state.isVertexProcessed, dest) = 0
                   /\ run1.state.vertexParents[v0] # dest
                \/ g.edgeMode = kAlgoGraphEdgeDirected
        THEN iDfsCallEdgeFunc(g, run1, callbacks, v0, dest)
        ELSE run1

\* A faulty finish that sets the exit time without advancing the clock.
iDfsFinishVertexNoTick(g, run, callbacks, v0) ==
    LET run1 == iDfsCallVertexFuncLate(g, run, callbacks, v0)
    IN  [run1 EXCEPT
            !.assertFailed = @ \/ iTestBit(run1.state.isVertexProcessed, v0) # 0,
            !.state.vertexExitTime[v0] = run1.state.currentTime,
            !.state.isVertexProcessed = iSetBit(@, v0)]

\* The else block: v0 has no more edges to visit: vertexFuncLate, then the
\* exit time and the processed bit.
iDfsFinishVertex(g, run, callbacks, v0) ==
    LET run1 == iDfsCallVertexFuncLate(g, run, callbacks, v0)
    IN  [run1 EXCEPT
            !.assertFailed = @ \/ iTestBit(run1.state.isVertexProcessed, v0) # 0,
            !.state.currentTime = @ + 1,
            !.state.vertexExitTime[v0] = run1.state.currentTime + 1,
            !.state.isVertexProcessed = iSetBit(@, v0)]

\* The while (currentStackSize > 0) loop of algoGraphDfs.  run: the search
\* state, the callbacks' userData, the events so far, the bits after each
\* iteration (steps), the stack after each iteration (stacks), whether a call
\* on the stack returned an error (stackFailed) and whether an assertion
\* failed.  A failed assertion on the popped vertex ends the run.
RECURSIVE iDfsLoop(_, _, _)
iDfsLoop(g, run, callbacks) ==
    IF algoStackGetCurrentSize(run.state.vertexStack) <= 0
    THEN run
    ELSE LET popped == algoStackPop(run.state.vertexStack, TRUE)
             v0     == popped.outElem
         IN  IF ~iGraphIsValidVertexId(g, v0)
             THEN [run EXCEPT !.assertFailed = TRUE]
             ELSE LET run1 == iDfsDiscover(g,
                                  [run EXCEPT
                                      !.state.vertexStack = popped.stack,
                                      !.stackFailed = @ \/ popped.err # kAlgoErrorNone],
                                  callbacks, v0)
                      run2 == IF run1.state.vertexNextEdge[v0] # NULL
                              THEN iDfsFollowEdge(g, run1, callbacks, v0)
                              ELSE iDfsFinishVertex(g, run1, callbacks, v0)
                  IN  iDfsLoop(g,
                               [run2 EXCEPT
                                   !.steps = Append(@, DfsBits(run2.state)),
                                   !.stacks = Append(@, DfsStackSnapshot(run2.state))],
                               callbacks)

\* algoGraphDfs(graph, dfsState, rootVertexId, callbacks), for a state that
\* was created for this graph.  events and steps continue those of the earlier
\* runs on the state.
algoGraphDfs(g, run, rootVertexId, callbacks) ==
    IF ~iGraphIsValidVertexId(g, rootVertexId)
    THEN [err |-> kAlgoErrorInvalidArgument, run |-> run]
    ELSE LET pushed == algoStackPush(run.state.vertexStack, rootVertexId)
             run1   == [run EXCEPT
                          !.state.vertexStack = pushed.stack,
                          !.stackFailed = @ \/ pushed.err # kAlgoErrorNone]
         IN  [err |-> kAlgoErrorNone,
              run |-> iDfsLoop(g,
                          [run1 EXCEPT !.stacks = Append(@, DfsStackSnapshot(run1.state))],
                          callbacks)]

\* The run record of a search state on which no search has run yet.
DfsNewRun(dfsState, userData) ==
    [state |-> dfsState, userData |-> userData, events |-> <<>>,
     steps |-> <<DfsBits(dfsState)>>, stacks |-> <<DfsStackSnapshot(dfsState)>>,
     stackFailed |-> FALSE, edgeStates |-> <<>>, assertFailed |-> FALSE]

(***************************************************************************)
(* Topological sort                                                        *)
(***************************************************************************)

\* algoGraphTopoSortComputeBufferSize(&size, graph), for non-null arguments.
algoGraphTopoSortComputeBufferSize(g) ==
    algoGraphDfsStateComputeBufferSize(g)

\* The callbacks algoGraphTopoSort runs its searches with.
TopoSortCallbacks ==
    DfsCallbacks(NoCallback, "iGraphTopoSortEdge", "iGraphTopoSortVertexLate")

\* A faulty loop that starts a search from the first valid vertex only.
RECURSIVE iTopoSortLoopFirstOnly(_, _, _)
iTopoSortLoopFirstOnly(g, run, iValidVert) ==
    IF iValidVert >= g.currentVertexCount \/ iValidVert >= 1
    THEN [err |-> kAlgoErrorNone, run |-> run]
    ELSE [err |-> kAlgoErrorNone,
          run |-> algoGraphDfs(g, run, g.validVertexIds[iValidVert], TopoSortCallbacks).run]

\* The for loop of algoGraphTopoSort over validVertexIds, from iValidVert on:
\* a search from every valid vertex that is not processed yet, until the
\* output is full.
RECURSIVE iTopoSortLoop(_, _, _)
iTopoSortLoop(g, run, iValidVert) ==
    IF iValidVert >= g.currentVertexCount
    THEN [err |-> kAlgoErrorNone, run |-> run]
    ELSE LET vertexId == g.validVertexIds[iValidVert]
             isVertexSorted ==
                 algoGraphDfsStateIsVertexProcessed(g, run.state, vertexId, 0).outIsProcessed
         IN  IF iGraphIsValidVertexId(g, vertexId) /\ isVertexSorted = 0
             THEN LET r == algoGraphDfs(g, run, vertexId, TopoSortCallbacks) IN
                  IF r.err # kAlgoErrorNone
                  THEN r
                  ELSE IF r.run.userData.nextFreeIndex < 0
                  THEN r
                  ELSE iTopoSortLoop(g, r.run, iValidVert + 1)
             ELSE iTopoSortLoop(g, run, iValidVert + 1)

\* A faulty sort that does not look at the edge mode.
algoGraphTopoSortAnyMode(g, outSortedVertices, sortedVertexCount, bufferSize) ==
    IF sortedVertexCount < g.currentVertexCount
    THEN [err |-> kAlgoErrorInvalidArgument, outSortedVertices |-> outSortedVertices,
          assertFailed |-> FALSE]
    ELSE IF bufferSize < algoGraphTopoSortComputeBufferSize(g).size
    THEN [err |-> kAlgoErrorInvalidArgument, outSortedVertices |-> outSortedVertices,
          assertFailed |-> FALSE]
    ELSE LET created == algoGraphDfsStateCreate(g, algoGraphDfsStateComputeBufferSize(g).size)
             sortResults == [sortedVertices |-> outSortedVertices,
                             nextFreeIndex |-> g.currentVertexCount - 1]
             r == iTopoSortLoop(g, DfsNewRun(created.state, sortResults), 0)
         IN  [err |-> r.err,
              outSortedVertices |-> r.run.userData.sortedVertices,
              assertFailed |-> r.run.assertFailed]

\* algoGraphTopoSort(graph, outSortedVertices, sortedVertexCount, buffer,
\* bufferSize), for a non-null graph, output array and buffer.
\* outSortedVertices is the array as the caller passes it; the result holds it
\* as the call leaves it, and whether an assertion failed on the way.
algoGraphTopoSort(g, outSortedVertices, sortedVertexCount, bufferSize) ==
    IF sortedVertexCount < g.currentVertexCount
    THEN [err |-> kAlgoErrorInvalidArgument, outSortedVertices |-> outSortedVertices,
          assertFailed |-> FALSE]
    ELSE IF g.edgeMode = kAlgoGraphEdgeUndirected
    THEN [err |-> kAlgoErrorOperationFailed, outSortedVertices |-> outSortedVertices,
          assertFailed |-> FALSE]
    ELSE IF bufferSize < algoGraphTopoSortComputeBufferSize(g).size
    THEN [err |-> kAlgoErrorInvalidArgument, outSortedVertices |-> outSortedVertices,
          assertFailed |-> FALSE]
    ELSE LET created == algoGraphDfsStateCreate(g, algoGraphDfsStateComputeBufferSize(g).size)
         IN  IF created.err # kAlgoErrorNone
             THEN [err |-> created.err, outSortedVertices |-> outSortedVertices,
                   assertFailed |-> FALSE]
             ELSE LET sortResults == [sortedVertices |-> outSortedVertices,
                                      nextFreeIndex |-> g.currentVertexCount - 1]
                      r == iTopoSortLoop(g, DfsNewRun(created.state, sortResults), 0)
                  IN  [err |-> r.err,
                       outSortedVertices |-> r.run.userData.sortedVertices,
                       assertFailed |-> r.run.assertFailed]

(***************************************************************************)
(* Depth-first search and topological sort: the client                     *)
(***************************************************************************)

\* No search state exists yet; no sort was called yet.
DfsNone == [pc |-> "none"]
TopoNone == [pc |-> "none"]

DfsIdle == dfs = DfsNone /\ topo = TopoNone

\* The graphs a search or a sort runs on: three vertices and up to three edges.
DfsVertexCapacities == {3}
DfsEdgeCapacities == {3}

DfsInit ==
    /\ \E vc \in DfsVertexCapacities, ec \in DfsEdgeCapacities,
          mode \in GraphEdgeModes, garbage \in GraphGarbageWords :
          graph = algoGraphCreate(vc, ec, mode, garbage)
    /\ graphFresh = TRUE
    /\ dfs = DfsNone
    /\ topo = TopoNone

\* The client builds the graph before it searches or sorts it.
DfsAddVertex ==
    /\ dfs.pc = "none" /\ topo.pc = "none"
    /\ graph' = algoGraphAddVertex(graph, 0, TRUE).graph
    /\ UNCHANGED <<graphFresh, dfs, topo>>
    /\ UNCHANGED <<poolVars, stackVars, queueVars, heapVars, bfsVars, ctorVars>>

DfsAddEdge ==
    /\ dfs.pc = "none" /\ topo.pc = "none"
    /\ \E srcVertexId \in GraphSlots(graph), destVertexId \in GraphSlots(graph) :
          graph' = algoGraphAddEdge(graph, srcVertexId, destVertexId).graph
    /\ UNCHANGED <<graphFresh, dfs, topo>>
    /\ UNCHANGED <<poolVars, stackVars, queueVars, heapVars, bfsVars, ctorVars>>

\* The client removes a vertex, once at most, so that searches and sorts also
\* run on graphs with a free slot among the ids and with re-used slots.
DfsRemoveVertex ==
    /\ dfs.pc = "none" /\ topo.pc = "none"
    /\ graphFresh
    /\ \E vertexId \in GraphSlots(graph) :
          LET r == algoGraphRemoveVertex(graph, vertexId) IN
          /\ graph' = r.graph
          /\ graphFresh' = (graphFresh /\ r.err # kAlgoErrorNone)
    /\ UNCHANGED <<dfs, topo>>
    /\ UNCHANGED <<poolVars, stackVars, queueVars, heapVars, bfsVars, ctorVars>>

\* The callbacks of the client's searches: its own three functions.
DfsClientCallbacks == DfsCallbacks("client", "client", "client")

\* The client creates the search state for the graph, in a buffer of the size
\* algoGraphDfsStateComputeBufferSize gave.
DfsStateCreate ==
    /\ dfs.pc = "none" /\ topo.pc = "none"
    /\ LET r == algoGraphDfsStateCreate(graph, algoGraphDfsStateComputeBufferSize(graph).size)
       IN  dfs' = [pc |-> "created", run |-> DfsNewRun(r.state, NULL), roots |-> <<>>]
    /\ UNCHANGED <<graphVars, topo>>
    /\ UNCHANGED <<poolVars, stackVars, queueVars, heapVars, bfsVars, ctorVars>>

\* The client runs a search on its state, from a root that no earlier run has
\* processed (or from an id that is no vertex: the call fails).
DfsRun ==
    /\ dfs.pc = "created"
    /\ \E rootVertexId \in GraphVertexIdArgs(graph) :
          /\ iGraphIsValidVertexId(graph, rootVertexId) =>
                 iTestBit(dfs.run.state.isVertexProcessed, rootVertexId) = 0
          /\ LET r == algoGraphDfs(graph, dfs.run, rootVertexId, DfsClientCallbacks) IN
             dfs' = IF r.err = kAlgoErrorNone
                    THEN [dfs EXCEPT !.run = r.run, !.roots = Append(@, rootVertexId)]
                    ELSE dfs
    /\ UNCHANGED <<graphVars, topo>>
    /\ UNCHANGED <<poolVars, stackVars, queueVars, heapVars, bfsVars, ctorVars>>

\* The output arrays and buffers a client sorts into: up to vertexCapacity
\* elements, every element -1 before the call; a buffer of the computed size or
\* one byte short of it.
TopoSort ==
    /\ dfs.pc = "none" /\ topo.pc = "none"
    /\ \E sortedVertexCount \in 0..graph.vertexCapacity,
          bufferSize \in {algoGraphTopoSortComputeBufferSize(graph).size - 1,
                          algoGraphTopoSortComputeBufferSize(graph).size} :
          LET r == algoGraphTopoSort(graph, [i \in 0..(sortedVertexCount - 1) |-> -1],
                                     sortedVertexCount, bufferSize)
          IN  topo' = [pc |-> "done", sortedVertexCount |-> sortedVertexCount,
                       bufferSize |-> bufferSize, err |-> r.err,
                       outSortedVertices |-> r.outSortedVertices,
                       assertFailed |-> r.assertFailed]
    /\ UNCHANGED <<graphVars, dfs>>
    /\ UNCHANGED <<poolVars, stackVars, queueVars, heapVars, bfsVars, ctorVars>>

(***************************************************************************)
(* Construction: ComputeBufferSize and Create                              *)
(***************************************************************************)

\* sizeof of the headers and of a heap node on an LP64 build.
SizeofAlgoAllocPoolImpl == 40
SizeofAlgoQueueImpl == 40
SizeofAlgoHeapImpl == 40
SizeofAlgoHeapNode == 16
SizeofAlgoGraphImpl == 88

\* x < sizeof(...) for an int32_t x: x is converted to size_t, so that a
\* negative x is not smaller.
iLessThanSizeof(x, size) == x >= 0 /\ x < size

\* The result of a Create call: the error code, the bytes carved out of the
\* buffer (bufferNext - buffer), and the object, if one was constructed.
CtorFailed(err) == [err |-> err, bytes |-> 0, object |-> <<>>]
CtorCreated(bytes, object) ==
    [err |-> kAlgoErrorNone, bytes |-> bytes, object |-> <<object>>]

\* algoAllocPoolComputeBufferSize(&size, elementSize, elementCount), for a
\* non-null size.
algoAllocPoolComputeBufferSize(elementSize, elementCount) ==
    IF iLessThanSizeof(elementSize, SizeofInt32) \/ elementCount < 1
    THEN [err |-> kAlgoErrorInvalidArgument, size |-> 0]
    ELSE [err |-> kAlgoErrorNone,
          size |-> SizeofAlgoAllocPoolImpl + elementCount * elementSize]

\* algoAllocPoolCreate(&pool, elementSize, elementCount, buffer, bufferSize),
\* for a non-null pool and buffer: the argument checks, then the header and
\* the blocks carved out of the buffer.
algoAllocPoolCreateCall(elementSize, elementCount, bufferSize) ==
    IF iLessThanSizeof(elementSize, SizeofInt32) \/ elementCount < 1
    THEN CtorFailed(kAlgoErrorInvalidArgument)
    ELSE IF algoAllocPoolComputeBufferSize(elementSize, elementCount).err # kAlgoErrorNone
    THEN CtorFailed(algoAllocPoolComputeBufferSize(elementSize, elementCount).err)
    ELSE IF bufferSize < algoAllocPoolComputeBufferSize(elementSize, elementCount).size
    THEN CtorFailed(kAlgoErrorInvalidArgument)
    ELSE CtorCreated(SizeofAlgoAllocPoolImpl + elementCount * elementSize,
                     algoAllocPoolCreate(elementSize, elementCount))

\* algoStackCreate(&stack, stackCapacity, buffer, bufferSize), for a non-null
\* stack and buffer.
algoStackCreateCall(stackCapacity, bufferSize) ==
    IF stackCapacity < 1
    THEN CtorFailed(kAlgoErrorInvalidArgument)
    ELSE IF algoStackComputeBufferSize(stackCapacity).err # kAlgoErrorNone
    THEN CtorFailed(algoStackComputeBufferSize(stackCapacity).err)
    ELSE IF bufferSize < algoStackComputeBufferSize(stackCapacity).size
    THEN CtorFailed(kAlgoErrorInvalidArgument)
    ELSE CtorCreated(SizeofAlgoStackImpl + stackCapacity * SizeofAlgoData,
                     algoStackCreate(stackCapacity, bufferSize))

\* A faulty size that forgets the empty slot of the ring buffer.
algoQueueComputeBufferSizeNoSentinel(queueCapacity) ==
    IF queueCapacity < 1
    THEN [err |-> kAlgoErrorInvalidArgument, size |-> 0]
    ELSE [err |-> kAlgoErrorNone,
          size |-> SizeofAlgoQueueImpl + queueCapacity * SizeofAlgoData]

\* algoQueueComputeBufferSize(&size, queueCapacity), for a non-null size.
algoQueueComputeBufferSize(queueCapacity) ==
    IF queueCapacity < 1
    THEN [err |-> kAlgoErrorInvalidArgument, size |-> 0]
    ELSE [err |-> kAlgoErrorNone,
          size |-> SizeofAlgoQueueImpl + (queueCapacity + 1) * SizeofAlgoData]

\* algoQueueCreate(&queue, queueCapacity, buffer, bufferSize), for a non-null
\* queue and buffer.
algoQueueCreateCall(queueCapacity, bufferSize) ==
    IF queueCapacity < 1
    THEN CtorFailed(kAlgoErrorInvalidArgument)
    ELSE IF algoQueueComputeBufferSize(queueCapacity).err # kAlgoErrorNone
    THEN CtorFailed(algoQueueComputeBufferSize(queueCapacity).err)
    ELSE IF bufferSize < algoQueueComputeBufferSize(queueCapacity).size
    THEN CtorFailed(kAlgoErrorInvalidArgument)
    ELSE CtorCreated(SizeofAlgoQueueImpl
                         + algoQueueCreate(queueCapacity).nodeCount * SizeofAlgoData,
                     algoQueueCreate(queueCapacity))

\* algoHeapComputeBufferSize(&size, heapCapacity), for a non-null size and a
\* heapCapacity >= -1 (below that the product wraps around as a size_t).  The
\* capacity is not looked at.
algoHeapComputeBufferSize(heapCapacity) ==
    [err |-> kAlgoErrorNone,
     size |-> SizeofAlgoHeapImpl + (heapCapacity + kAlgoHeapRootIndex) * SizeofAlgoHeapNode]

\* algoHeapCreate(&heap, heapCapacity, keyCompare, buffer, bufferSize), for a
\* non-null heap, keyCompare and buffer and a heapCapacity >= -1.
algoHeapCreateCall(heapCapacity, compare, bufferSize) ==
    IF algoHeapComputeBufferSize(heapCapacity).err # kAlgoErrorNone
    THEN CtorFailed(algoHeapComputeBufferSize(heapCapacity).err)
    ELSE IF bufferSize < algoHeapComputeBufferSize(heapCapacity).size
    THEN CtorFailed(kAlgoErrorInvalidArgument)
    ELSE CtorCreated(SizeofAlgoHeapImpl
                         + (heapCapacity + kAlgoHeapRootIndex) * SizeofAlgoHeapNode,
                     algoHeapCreate(heapCapacity, compare))

\* algoGraphComputeBufferSize(&size, vertexCapacity, edgeCapacity, edgeMode),
\* for a non-null size.  A vertexCapacity of 0 passes its check; an
\* edgeCapacity of 0 is rejected by the edge pool's size computation.
algoGraphComputeBufferSize(vertexCapacity, edgeCapacity, edgeMode) ==
    LET edgePoolSize == algoAllocPoolComputeBufferSize(SizeofAlgoGraphEdge,
                            edgeCapacity * iGraphNodesPerEdge(edgeMode))
    IN  IF vertexCapacity < 0 \/ edgeCapacity < 0
        THEN [err |-> kAlgoErrorInvalidArgument, size |-> 0]
        ELSE IF edgePoolSize.err # kAlgoErrorNone
        THEN [err |-> edgePoolSize.err, size |-> 0]
        ELSE [err |-> kAlgoErrorNone,
              size |-> SizeofAlgoGraphImpl
                           + vertexCapacity * SizeofInt32      \* vertexDegrees
                           + vertexCapacity * SizeofAlgoData   \* vertexData
                           + vertexCapacity * SizeofInt32      \* validVertexIds
                           + vertexCapacity * SizeofInt32      \* vertexIdToValidIndex
                           + vertexCapacity * SizeofPointer    \* vertexEdges
                           + edgePoolSize.size]

\* algoGraphCreate(&graph, vertexCapacity, edgeCapacity, edgeMode, buffer,
\* bufferSize), for a non-null graph and buffer; garbage is what the buffer
\* holds where Create writes nothing.
algoGraphCreateCall(vertexCapacity, edgeCapacity, edgeMode, bufferSize, garbage) ==
    IF vertexCapacity <= 0 \/ edgeCapacity <= 0
    THEN CtorFailed(kAlgoErrorInvalidArgument)
    ELSE IF algoGraphComputeBufferSize(vertexCapacity, edgeCapacity, edgeMode).err
                # kAlgoErrorNone
    THEN CtorFailed(algoGraphComputeBufferSize(vertexCapacity, edgeCapacity, edgeMode).err)
    ELSE IF bufferSize < algoGraphComputeBufferSize(vertexCapacity, edgeCapacity, edgeMode).size
    THEN CtorFailed(kAlgoErrorInvalidArgument)
    ELSE LET edgePoolSize == algoAllocPoolComputeBufferSize(SizeofAlgoGraphEdge,
                                 edgeCapacity * iGraphNodesPerEdge(edgeMode))
         IN  IF edgePoolSize.err # kAlgoErrorNone
             THEN CtorFailed(edgePoolSize.err)
             ELSE CtorCreated(SizeofAlgoGraphImpl
                                  + vertexCapacity * SizeofInt32
                                  + vertexCapacity * SizeofAlgoData
                                  + vertexCapacity * SizeofInt32
                                  + vertexCapacity * SizeofInt32
                                  + vertexCapacity * SizeofPointer
                                  + edgePoolSize.size,
                              algoGraphCreate(vertexCapacity, edgeCapacity, edgeMode, garbage))

(***************************************************************************)
(* Construction: the client                                                *)
(***************************************************************************)

\* The largest capacity a client constructs a container with.
MaxCtorCapacity == 2

\* The capacities a client passes: valid ones, zero, and a negative one.
CtorCapacities == -1..MaxCtorCapacity

\* The buffer sizes a client passes when the parameters give size bytes (0 when
\* the size computation failed): one byte short, exact, and with room to spare.
CtorBufferSizes(size) == IF size > 0 THEN {size - 1, size, size + 8} ELSE {0, 256}

\* No construction call was made yet.
CtorNone == [pc |-> "none"]

CtorIdle == ctor = CtorNone

\* A ComputeBufferSize call: the container type, the arguments, the capacities
\* among them, and the result.
CtorSizeCall(type, args, capacities, r) ==
    [pc |-> "done", type |-> type, op |-> "ComputeBufferSize", args |-> args,
     capacities |-> capacities, bufferSize |-> 0,
     err |-> r.err, size |-> r.size, bytes |-> 0, object |-> <<>>]

\* A Create call: the same, with the buffer size passed, the bytes carved out
\* and the object constructed.
CtorCreateCall(type, args, capacities, bufferSize, r) ==
    [pc |-> "done", type |-> type, op |-> "Create", args |-> args,
     capacities |-> capacities, bufferSize |-> bufferSize,
     err |-> r.err, size |-> 0, bytes |-> r.bytes, object |-> r.object]

CtorInit == ctor = CtorNone

CtorPoolComputeBufferSize ==
    /\ \E elementSize \in ElementSizes, elementCount \in CtorCapacities :
          ctor' = CtorSizeCall("pool", <<elementSize, elementCount>>, {elementCount},
                      algoAllocPoolComputeBufferSize(elementSize, elementCount))
    /\ UNCHANGED <<poolVars, stackVars, queueVars, heapVars, graphVars, bfsVars, dfsVars, client>>

CtorPoolCreate ==
    /\ \E elementSize \in ElementSizes, elementCount \in CtorCapacities :
       \E bufferSize \in CtorBufferSizes(
                             algoAllocPoolComputeBufferSize(elementSize, elementCount).size) :
          ctor' = CtorCreateCall("pool", <<elementSize, elementCount>>, {elementCount},
                      bufferSize,
                      algoAllocPoolCreateCall(elementSize, elementCount, bufferSize))
    /\ UNCHANGED <<poolVars, stackVars, queueVars, heapVars, graphVars, bfsVars, dfsVars, client>>

CtorStackComputeBufferSize ==
    /\ \E stackCapacity \in CtorCapacities :
          ctor' = CtorSizeCall("stack", <<stackCapacity>>, {stackCapacity},
                      algoStackComputeBufferSize(stackCapacity))
    /\ UNCHANGED <<poolVars, stackVars, queueVars, heapVars, graphVars, bfsVars, dfsVars, client>>

CtorStackCreate ==
    /\ \E stackCapacity \in CtorCapacities :
       \E bufferSize \in CtorBufferSizes(algoStackComputeBufferSize(stackCapacity).size) :
          ctor' = CtorCreateCall("stack", <<stackCapacity>>, {stackCapacity}, bufferSize,
                      algoStackCreateCall(stackCapacity, bufferSize))
    /\ UNCHANGED <<poolVars, stackVars, queueVars, heapVars, graphVars, bfsVars, dfsVars, client>>

CtorQueueComputeBufferSize ==
    /\ \E queueCapacity \in CtorCapacities :
          ctor' = CtorSizeCall("queue", <<queueCapacity>>, {queueCapacity},
                      algoQueueComputeBufferSize(queueCapacity))
    /\ UNCHANGED <<poolVars, stackVars, queueVars, heapVars, graphVars, bfsVars, dfsVars, client>>

CtorQueueCreate ==
    /\ \E queueCapacity \in CtorCapacities :
       \E bufferSize \in CtorBufferSizes(algoQueueComputeBufferSize(queueCapacity).size) :
          ctor' = CtorCreateCall("queue", <<queueCapacity>>, {queueCapacity}, bufferSize,
                      algoQueueCreateCall(queueCapacity, bufferSize))
    /\ UNCHANGED <<poolVars, stackVars, queueVars, heapVars, graphVars, bfsVars, dfsVars, client>>

CtorHeapComputeBufferSize ==
    /\ \E heapCapacity \in CtorCapacities :
          ctor' = CtorSizeCall("heap", <<heapCapacity>>, {heapCapacity},
                      algoHeapComputeBufferSize(heapCapacity))
    /\ UNCHANGED <<poolVars, stackVars, queueVars, heapVars, graphVars, bfsVars, dfsVars, client>>

CtorHeapCreate ==
    /\ \E heapCapacity \in CtorCapacities, compare \in HeapComparators :
       \E bufferSize \in CtorBufferSizes(algoHeapComputeBufferSize(heapCapacity).size) :
          ctor' = CtorCreateCall("heap", <<heapCapacity>>, {heapCapacity}, bufferSize,
                      algoHeapCreateCall(heapCapacity, compare, bufferSize))
    /\ UNCHANGED <<poolVars, stackVars, queueVars, heapVars, graphVars, bfsVars, dfsVars, client>>

CtorGraphComputeBufferSize ==
    /\ \E vertexCapacity \in CtorCapacities, edgeCapacity \in CtorCapacities,
          edgeMode \in GraphEdgeModes :
          ctor' = CtorSizeCall("graph", <<vertexCapacity, edgeCapacity, edgeMode>>,
                      {vertexCapacity, edgeCapacity},
                      algoGraphComputeBufferSize(vertexCapacity, edgeCapacity, edgeMode))
    /\ UNCHANGED <<poolVars, stackVars, queueVars, heapVars, graphVars, bfsVars, dfsVars, client>>

CtorGraphCreate ==
    /\ \E vertexCapacity \in CtorCapacities, edgeCapacity \in CtorCapacities,
          edgeMode \in GraphEdgeModes, garbage \in GraphGarbageWords :
       \E bufferSize \in CtorBufferSizes(
              algoGraphComputeBufferSize(vertexCapacity, edgeCapacity, edgeMode).size) :
          ctor' = CtorCreateCall("graph", <<vertexCapacity, edgeCapacity, edgeMode>>,
                      {vertexCapacity, edgeCapacity}, bufferSize,
                      algoGraphCreateCall(vertexCapacity, edgeCapacity, edgeMode,
                                          bufferSize, garbage))
    /\ UNCHANGED <<poolVars, stackVars, queueVars, heapVars, graphVars, bfsVars, dfsVars, client>>

(***************************************************************************)
(* Graph: claims                                                           *)
(***************************************************************************)

\* C11: in every state reached by AddVertex, RemoveVertex, AddEdge, RemoveEdge
\* and SetVertexData calls, failed ones included: the slots of degree >= 0
\* number currentVertexCount; validVertexIds[0..currentVertexCount) lists the
\* valid ids, each once, and vertexIdToValidIndex is its inverse; the free list
\* from nextFreeVertexId repeats no slot, visits exactly the invalid slots and
\* has vertexCapacity - currentVertexCount entries.
C11_VertexBookkeeping ==
    LET valid    == GraphValidIds(graph)
        count    == graph.currentVertexCount
        freeList == iGraphFreeList(graph, graph.nextFreeVertexId, graph.vertexCapacity + 1)
    IN  /\ Cardinality(valid) = count
        /\ {graph.validVertexIds[i] : i \in 0..(count - 1)} = valid
        /\ \A i, j \in 0..(count - 1) :
              graph.validVertexIds[i] = graph.validVertexIds[j] => i = j
        /\ \A v \in valid :
              /\ graph.vertexIdToValidIndex[v] \in 0..(count - 1)
              /\ graph.validVertexIds[graph.vertexIdToValidIndex[v]] = v
        /\ Len(freeList) = graph.vertexCapacity - count
        /\ \A i, j \in 1..Len(freeList) : freeList[i] = freeList[j] => i = j
        /\ {freeList[i] : i \in 1..Len(freeList)} = GraphSlots(graph) \ valid

\* C11 witness: vertex 0 of three was removed, so the last valid id, 2, moved
\* to place 0 of validVertexIds; then vertex 1 was removed as well, and the free
\* list runs 1, 0 against the index order.
C11_Witness ==
    /\ ~graphFresh
    /\ graph.vertexCapacity = 3 /\ graph.currentVertexCount = 1
    /\ graph.validVertexIds[0] = 2
    /\ iGraphFreeList(graph, graph.nextFreeVertexId, 4) = <<1, 0>>

\* The indices of the blocks on the pool's free list, from index on; the walk
\* ends at -1 (and after fuel steps).
RECURSIVE iPoolFreeIndices(_, _, _)
iPoolFreeIndices(p, index, fuel) ==
    IF index = -1 \/ fuel = 0 THEN <<>>
    ELSE <<index>> \o iPoolFreeIndices(p, p.mem[index], fuel - 1)

\* The block indices of the nodes in the adjacency list of vertex v.
GraphListBlocks(g, v) ==
    LET nodes == iGraphListNodes(g, g.vertexEdges[v]) IN
    [i \in 1..Len(nodes) |-> iPoolIndexOf(g.edgePool, nodes[i])]

\* C12: in every reachable state, in both edge modes: every adjacency-list
\* entry points to a valid vertex; each valid vertex's list is as long as its
\* degree; the lists hold currentEdgeCount x nodesPerEdge nodes in all, which
\* are distinct blocks of the edge pool and, with the blocks of the pool's free
\* list, make up the pool once each; 0 <= currentEdgeCount <= edgeCapacity;
\* algoGraphValidate returns OK.
C12_EdgeBookkeeping ==
    LET valid  == GraphValidIds(graph)
        blocks == 0..(graph.edgePool.elementCount - 1)
        free   == iPoolFreeIndices(graph.edgePool, graph.edgePool.headIndex,
                                   graph.edgePool.elementCount + 1)
        used   == UNION {{GraphListBlocks(graph, v)[i] :
                            i \in 1..Len(GraphListBlocks(graph, v))} : v \in valid}
    IN  /\ \A v \in valid :
              LET dests == iGraphListDests(graph, graph.vertexEdges[v]) IN
              /\ \A i \in 1..Len(dests) : dests[i] \in valid
              /\ Len(dests) = graph.vertexDegrees[v]
        /\ iGraphCountEdgeNodes(graph, 0)
              = graph.currentEdgeCount * iGraphNodesPerEdge(graph.edgeMode)
        /\ Cardinality(used) = iGraphCountEdgeNodes(graph, 0)
        /\ Cardinality(used) = graph.edgePool.elementCount - Len(free)
        /\ \A i, j \in 1..Len(free) : free[i] = free[j] => i = j
        /\ {free[i] : i \in 1..Len(free)} = blocks \ used
        /\ 0 <= graph.currentEdgeCount
        /\ graph.currentEdgeCount <= graph.edgeCapacity
        /\ algoGraphValidate(graph) = kAlgoErrorNone

\* C12 witness: an undirected graph is full again (two edges, four nodes)
\* after a vertex that had edges was removed, so the nodes in use are blocks
\* that went through the free list: the head of vertex 2's list lies in a
\* lower block than its successor, which a pool never freed into cannot give.
C12_Witness ==
    /\ ~graphFresh
    /\ graph.edgeMode = kAlgoGraphEdgeUndirected
    /\ graph.edgeCapacity = 2 /\ graph.currentEdgeCount = 2
    /\ graph.currentVertexCount = 3
    /\ graph.vertexDegrees[2] = 2
    /\ GraphListBlocks(graph, 2)[1] < GraphListBlocks(graph, 2)[2]
    /\ graph.edgePool.headIndex = -1

\* The edge u->v is in u's adjacency list.
GraphHasEdge(g, u, v) ==
    \E i \in 1..Len(iGraphListDests(g, g.vertexEdges[u])) :
        iGraphListDests(g, g.vertexEdges[u])[i] = v

\* C13: in an undirected graph, in every reachable state (also after calls
\* that returned an error), u->v is in u's list iff v->u is in v's list.
C13_UndirectedSymmetry ==
    graph.edgeMode = kAlgoGraphEdgeUndirected =>
        \A u, v \in GraphValidIds(graph) :
            GraphHasEdge(graph, u, v) <=> GraphHasEdge(graph, v, u)

\* C13 witness: an undirected graph whose two edges meet at vertex 1, added
\* from either end (1->0 and 2->1 are the nodes allocated first), in which a
\* further AddEdge fails for lack of capacity.
C13_Witness ==
    /\ graph.edgeMode = kAlgoGraphEdgeUndirected
    /\ graph.currentVertexCount = 3 /\ graph.currentEdgeCount = 2
    /\ GraphHasEdge(graph, 0, 1) /\ GraphHasEdge(graph, 1, 2)
    /\ GraphListBlocks(graph, 1) = <<3, 0>>
    /\ GraphListBlocks(graph, 2) = <<2>>
    /\ algoGraphAddEdge(graph, 0, 2).err = kAlgoErrorOperationFailed

\* C14: in every reachable state, in both edge modes, no adjacency list
\* holds its own vertex and none holds a destination twice; an AddEdge whose
\* source or destination is not a valid vertex, or whose two ends are the same
\* vertex, returns InvalidArgument.
C14_NoSelfNoDuplicateEdges ==
    /\ \A v \in GraphValidIds(graph) :
          LET dests == iGraphListDests(graph, graph.vertexEdges[v]) IN
          /\ \A i \in 1..Len(dests) : dests[i] # v
          /\ \A i, j \in 1..Len(dests) : dests[i] = dests[j] => i = j
    /\ \A u, v \in GraphVertexIdArgs(graph) :
          (u \notin GraphValidIds(graph) \/ v \notin GraphValidIds(graph) \/ u = v)
              => algoGraphAddEdge(graph, u, v).err = kAlgoErrorInvalidArgument

\* C14 witness: a directed graph holds 0->1 alone, slot 2 is that of a removed
\* vertex, and there is room for another edge; AddEdge to the removed vertex
\* and AddEdge from vertex 1 to itself are refused, AddEdge(1, 0) is not.
C14_Witness ==
    /\ ~graphFresh
    /\ graph.edgeMode = kAlgoGraphEdgeDirected
    /\ graph.vertexCapacity = 3 /\ graph.vertexDegrees[2] = -1
    /\ graph.edgeCapacity = 2 /\ graph.currentEdgeCount = 1
    /\ GraphValidIds(graph) = {0, 1} /\ GraphHasEdge(graph, 0, 1)
    /\ algoGraphAddEdge(graph, 0, 2).err = kAlgoErrorInvalidArgument
    /\ algoGraphAddEdge(graph, 1, 1).err = kAlgoErrorInvalidArgument
    /\ algoGraphAddEdge(graph, 1, 0).err = kAlgoErrorNone

\* C15: in every reachable state and for all distinct valid u, v: if u->v
\* exists, AddEdge(u, v) returns OK and leaves the whole graph object (degrees,
\* lists, currentEdgeCount, edge pool) as it was; hence after a successful
\* AddEdge(u, v) a second AddEdge(u, v) is a no-op returning OK, and so is, in
\* an undirected graph, AddEdge(v, u).
C15_AddEdgeIdempotent ==
    \A u, v \in GraphValidIds(graph) :
        u # v =>
            LET r1 == algoGraphAddEdge(graph, u, v) IN
            /\ GraphHasEdge(graph, u, v) =>
                  r1 = [err |-> kAlgoErrorNone, graph |-> graph]
            /\ r1.err = kAlgoErrorNone =>
                  /\ algoGraphAddEdge(r1.graph, u, v)
                        = [err |-> kAlgoErrorNone, graph |-> r1.graph]
                  /\ graph.edgeMode = kAlgoGraphEdgeUndirected =>
                        algoGraphAddEdge(r1.graph, v, u)
                            = [err |-> kAlgoErrorNone, graph |-> r1.graph]

\* C15 witness: a directed graph at its edge capacity lists 0->2 before 0->1;
\* AddEdge(0, 1) finds the edge behind the head of the list and returns OK
\* although the edge pool is empty.
C15_Witness ==
    /\ graph.edgeMode = kAlgoGraphEdgeDirected
    /\ graph.currentEdgeCount = graph.edgeCapacity
    /\ graph.edgePool.headIndex = -1
    /\ iGraphIsValidVertexId(graph, 0)
    /\ iGraphListDests(graph, graph.vertexEdges[0]) = <<2, 1>>
    /\ algoGraphAddEdge(graph, 0, 1) = [err |-> kAlgoErrorNone, graph |-> graph]

\* The number of blocks on the edge pool's free list.
GraphFreeNodeCount(g) ==
    Len(iPoolFreeIndices(g.edgePool, g.edgePool.headIndex, g.edgePool.elementCount + 1))

\* C16: in every reachable state, AddEdge(u, v) for distinct valid u, v with
\* u->v not present returns OK when currentEdgeCount < edgeCapacity, and then
\* the edge is present and counted once, and returns OperationFailed otherwise,
\* and then the graph is as it was; the free blocks of an undirected graph's
\* edge pool are even in number, so the second allocation of an AddEdge never
\* fails after the first has succeeded.
C16_AddEdgeCapacity ==
    /\ \A u, v \in GraphValidIds(graph) :
          (u # v /\ ~GraphHasEdge(graph, u, v)) =>
              LET r == algoGraphAddEdge(graph, u, v) IN
              IF graph.currentEdgeCount < graph.edgeCapacity
              THEN /\ r.err = kAlgoErrorNone
                   /\ GraphHasEdge(r.graph, u, v)
                   /\ r.graph.currentEdgeCount = graph.currentEdgeCount + 1
              ELSE /\ r.err = kAlgoErrorOperationFailed
                   /\ r.graph = graph
    /\ graph.edgeMode = kAlgoGraphEdgeUndirected =>
          GraphFreeNodeCount(graph) % 2 = 0

\* C16 witness: an undirected graph that lost a vertex is at its capacity of
\* two edges, all four nodes in use; AddEdge(0, 2), an edge not present,
\* fails and leaves the graph alone.
C16_Witness ==
    /\ ~graphFresh
    /\ graph.edgeMode = kAlgoGraphEdgeUndirected
    /\ graph.edgeCapacity = 2 /\ graph.currentEdgeCount = 2
    /\ GraphFreeNodeCount(graph) = 0
    /\ GraphValidIds(graph) = {0, 1, 2}
    /\ ~GraphHasEdge(graph, 0, 2)
    /\ algoGraphAddEdge(graph, 0, 2)
          = [err |-> kAlgoErrorOperationFailed, graph |-> graph]

\* C17: in every reachable state an AddVertex returns OperationFailed exactly
\* when currentVertexCount = vertexCapacity; otherwise it returns OK and the id
\* at the head of the free list, a slot that was invalid, which becomes valid
\* with degree 0, an empty list and the data supplied (the id is written only
\* through a non-null outVertexId).  While no vertex has been removed the id is
\* the number of vertices added so far: 0, 1, 2, ...  After RemoveVertex(v), the
\* next AddVertex returns v.
C17_AddVertex ==
    /\ \A data \in GraphVertexData, hasOut \in BOOLEAN :
          LET r  == algoGraphAddVertex(graph, data, hasOut)
              id == graph.nextFreeVertexId
          IN  /\ ~r.assertFailed
              /\ r.err \in {kAlgoErrorNone, kAlgoErrorOperationFailed}
              /\ (r.err = kAlgoErrorOperationFailed)
                    <=> (graph.currentVertexCount = graph.vertexCapacity)
              /\ r.err = kAlgoErrorOperationFailed => r.graph = graph
              /\ r.err = kAlgoErrorNone =>
                    /\ id \in GraphSlots(graph) \ GraphValidIds(graph)
                    /\ r.outVertexId = (IF hasOut THEN id ELSE -1)
                    /\ GraphValidIds(r.graph) = GraphValidIds(graph) \cup {id}
                    /\ r.graph.vertexDegrees[id] = 0
                    /\ r.graph.vertexEdges[id] = NULL
                    /\ r.graph.vertexData[id] = data
                    /\ graphFresh => id = graph.currentVertexCount
    /\ \A v \in GraphValidIds(graph), data \in GraphVertexData :
          LET removed == algoGraphRemoveVertex(graph, v) IN
          /\ removed.err = kAlgoErrorNone
          /\ algoGraphAddVertex(removed.graph, data, TRUE).err = kAlgoErrorNone
          /\ algoGraphAddVertex(removed.graph, data, TRUE).outVertexId = v

\* C17 witness: vertices 0 and then 2 of three were removed, so the free list
\* runs 2, 0; AddVertex returns 2, not the lowest free id, and replaces the
\* link kept in slot 2 (to slot 0) by the caller's data.
C17_Witness ==
    /\ ~graphFresh
    /\ graph.vertexCapacity = 3 /\ GraphValidIds(graph) = {1}
    /\ graph.nextFreeVertexId = 2 /\ graph.vertexData[2] = 0
    /\ algoGraphAddVertex(graph, 1, TRUE).err = kAlgoErrorNone
    /\ algoGraphAddVertex(graph, 1, TRUE).outVertexId = 2
    /\ algoGraphAddVertex(graph, 1, TRUE).graph.vertexData[2] = 1
    /\ algoGraphAddVertex(graph, 1, TRUE).graph.nextFreeVertexId = 0

\* The destinations in the adjacency list of vertex u, in list order.
GraphDests(g, u) == iGraphListDests(g, g.vertexEdges[u])

\* The number of logical edges incident to v: in a directed graph the edges
\* out of v and the edges into v, in an undirected graph the edges at v.
GraphIncidentEdgeCount(g, v) ==
    IF g.edgeMode = kAlgoGraphEdgeUndirected
    THEN Len(GraphDests(g, v))
    ELSE Len(GraphDests(g, v))
         + Cardinality({u \in GraphValidIds(g) \ {v} : GraphHasEdge(g, u, v)})

\* C18: in every reachable state, RemoveVertex(v) of a valid v returns OK with
\* no assertion failing; v becomes invalid and no other vertex does; every
\* other vertex keeps its data and its adjacency list, in order, less the
\* entry for v; currentEdgeCount drops by the number of logical edges that
\* were incident to v.
C18_RemoveVertex ==
    \A v \in GraphValidIds(graph) :
        LET r == algoGraphRemoveVertex(graph, v) IN
        /\ r.err = kAlgoErrorNone
        /\ ~r.assertFailed
        /\ GraphValidIds(r.graph) = GraphValidIds(graph) \ {v}
        /\ \A u \in GraphValidIds(graph) \ {v} :
              /\ r.graph.vertexData[u] = graph.vertexData[u]
              /\ GraphDests(r.graph, u) = SelectSeq(GraphDests(graph, u), LAMBDA x : x # v)
        /\ r.graph.currentEdgeCount
              = graph.currentEdgeCount - GraphIncidentEdgeCount(graph, v)

\* C18 witness: an undirected graph with the edges 0-1 and 1-2, where vertex
\* 1 lists 2 before 0; removing vertex 0 leaves the vertices 1 and 2, the edge
\* 1-2 in both lists, one edge counted, and slot 0 at the head of the free list.
C18_Witness ==
    /\ graph.edgeMode = kAlgoGraphEdgeUndirected
    /\ GraphValidIds(graph) = {0, 1, 2} /\ graph.currentEdgeCount = 2
    /\ GraphDests(graph, 0) = <<1>>
    /\ GraphDests(graph, 1) = <<2, 0>>
    /\ GraphDests(graph, 2) = <<1>>
    /\ GraphValidIds(algoGraphRemoveVertex(graph, 0).graph) = {1, 2}
    /\ GraphDests(algoGraphRemoveVertex(graph, 0).graph, 1) = <<2>>
    /\ GraphDests(algoGraphRemoveVertex(graph, 0).graph, 2) = <<1>>
    /\ algoGraphRemoveVertex(graph, 0).graph.currentEdgeCount = 1
    /\ algoGraphRemoveVertex(graph, 0).graph.nextFreeVertexId = 0

RECURSIVE GraphReachWithin(_, _, _)
GraphReachWithin(g, root, k) ==
    IF k = 0 THEN {root}
    ELSE LET near == GraphReachWithin(g, root, k - 1) IN
         near \cup {w \in GraphValidIds(g) : \E u \in near : GraphHasEdge(g, u, w)}

\* The vertices reachable from root, and the least number of edges on a path
\* from root to a reachable v.
GraphReachable(g, root) == GraphReachWithin(g, root, g.vertexCapacity)
GraphDistance(g, root, v) ==
    CHOOSE k \in 0..g.vertexCapacity :
        /\ v \in GraphReachWithin(g, root, k)
        /\ k > 0 => v \notin GraphReachWithin(g, root, k - 1)

\* The number of parent links from v back to root; -1 if the links do not
\* lead to root within fuel steps.
RECURSIVE BfsParentDepth(_, _, _, _)
BfsParentDepth(parents, root, v, fuel) ==
    IF v = root THEN 0
    ELSE IF fuel = 0 \/ parents[v] = -1 THEN -1
    ELSE LET d == BfsParentDepth(parents, root, parents[v], fuel - 1) IN
         IF d = -1 THEN -1 ELSE d + 1

\* C20: after algoGraphBfs from root on a freshly created state, in a directed
\* or undirected graph: no assertion failed; parent[root] = -1; for every other
\* discovered v, parent[v] is a valid vertex with an edge parent[v]->v, it was
\* dequeued (vertexFuncEarly) before v was discovered, and the parent links
\* from v reach root in as many steps as the shortest path from root to v has
\* edges.
C20_BfsShortestPathTree ==
    bfs.pc = "done" =>
        LET st   == bfs.state
            root == bfs.root
        IN  /\ ~bfs.assertFailed
            /\ st.vertexParents[root] = -1
            /\ \A v \in GraphSlots(graph) \ {root} :
                  st.isVertexDiscovered[v] = 1 =>
                      LET p == st.vertexParents[v] IN
                      /\ p \in GraphValidIds(graph)
                      /\ GraphHasEdge(graph, p, v)
                      /\ \E i, j \in 1..Len(bfs.events) :
                            /\ i < j
                            /\ bfs.events[i] = BfsEvent("vertexFuncEarly", p, -1)
                            /\ bfs.events[j] = BfsEvent("discover", p, v)
                      /\ v \in GraphReachable(graph, root)
                      /\ BfsParentDepth(st.vertexParents, root, v, graph.vertexCapacity)
                            = GraphDistance(graph, root, v)

\* C20 witness: a directed graph with 0->1, 1->2 and 0->2, where vertex 0 lists
\* 1 before 2; the search from 0 gives vertex 2 the parent 0 (one edge), not 1
\* (two edges, the path a depth-first walk of the lists takes).
C20_Witness ==
    /\ bfs.pc = "done" /\ bfs.root = 0
    /\ graph.edgeMode = kAlgoGraphEdgeDirected
    /\ GraphDests(graph, 0) = <<1, 2>>
    /\ GraphDests(graph, 1) = <<2>>
    /\ bfs.state.vertexParents = [v \in 0..2 |-> IF v = 0 THEN -1 ELSE 0]
    /\ bfs.state.isVertexDiscovered = [v \in 0..2 |-> 1]

\* The number of edgeFunc calls among events that were made with (v0, v1).
EdgeFuncCalls(events, v0, v1) ==
    Cardinality({i \in 1..Len(events) : events[i] = BfsEvent("edgeFunc", v0, v1)})

\* C21: after algoGraphBfs from root on a freshly created state, edgeFunc was
\* called only with edges v0->v1 of the graph whose source is reachable from
\* root; in a directed graph exactly once with every such edge; in an
\* undirected graph exactly once for every edge {u, v} of root's component,
\* counting the calls with (u, v) and with (v, u) together.
C21_BfsEdgeFuncOncePerEdge ==
    bfs.pc = "done" =>
        LET reach == GraphReachable(graph, bfs.root) IN
        /\ \A i \in 1..Len(bfs.events) :
              bfs.events[i].func = "edgeFunc" =>
                  /\ bfs.events[i].v0 \in reach
                  /\ GraphHasEdge(graph, bfs.events[i].v0, bfs.events[i].v1)
        /\ \A u \in reach, v \in GraphValidIds(graph) :
              GraphHasEdge(graph, u, v) =>
                  IF graph.edgeMode = kAlgoGraphEdgeDirected
                  THEN EdgeFuncCalls(bfs.events, u, v) = 1
                  ELSE EdgeFuncCalls(bfs.events, u, v)
                           + EdgeFuncCalls(bfs.events, v, u) = 1

\* C21 witness: the undirected triangle on 0, 1, 2 searched from 0: three
\* edgeFunc calls, none of them with the edge back to a processed vertex.
C21_Witness ==
    /\ bfs.pc = "done" /\ bfs.root = 0
    /\ graph.edgeMode = kAlgoGraphEdgeUndirected
    /\ graph.currentEdgeCount = 3
    /\ Cardinality({i \in 1..Len(bfs.events) : bfs.events[i].func = "edgeFunc"}) = 3
    /\ EdgeFuncCalls(bfs.events, 1, 0) = 0
    /\ EdgeFuncCalls(bfs.events, 2, 0) = 0
    /\ EdgeFuncCalls(bfs.events, 1, 2) + EdgeFuncCalls(bfs.events, 2, 1) = 1

(***************************************************************************)
(* Depth-first search: claims                                              *)
(***************************************************************************)

\* The vertices a search state has discovered.
DfsDiscovered(dfsState) ==
    {v \in DOMAIN dfsState.isVertexDiscovered : dfsState.isVertexDiscovered[v] = 1}

\* The interval [entryTime, exitTime] of u strictly contains that of v.
DfsIntervalContains(dfsState, u, v) ==
    /\ dfsState.vertexEntryTime[u] < dfsState.vertexEntryTime[v]
    /\ dfsState.vertexExitTime[v] < dfsState.vertexExitTime[u]

\* The intervals of u and v have no time in common.
DfsIntervalsDisjoint(dfsState, u, v) ==
    \/ dfsState.vertexExitTime[u] < dfsState.vertexEntryTime[v]
    \/ dfsState.vertexExitTime[v] < dfsState.vertexEntryTime[u]

\* C22: after one or more algoGraphDfs runs on one state, each from a root
\* not processed before: no assertion failed; every discovered v has
\* entryTime[v] < exitTime[v]; the intervals of two discovered vertices are
\* disjoint or one strictly contains the other; the interval of parent[v]
\* contains that of v; and parent[v] was assigned at most once, along an edge
\* parent[v]->v of the graph.
C22_DfsParenthesisProperty ==
    (dfs.pc = "created" /\ dfs.roots # <<>>) =>
        LET st == dfs.run.state
            found == DfsDiscovered(st)
        IN  /\ ~dfs.run.assertFailed
            /\ \A v \in found : st.vertexEntryTime[v] < st.vertexExitTime[v]
            /\ \A u \in found : \A v \in found \ {u} :
                  \/ DfsIntervalsDisjoint(st, u, v)
                  \/ DfsIntervalContains(st, u, v)
                  \/ DfsIntervalContains(st, v, u)
            /\ \A v \in GraphSlots(graph) :
                  LET assigned == {i \in 1..Len(dfs.run.events) :
                                      /\ dfs.run.events[i].func = "parent"
                                      /\ dfs.run.events[i].v1 = v}
                  IN  /\ Cardinality(assigned) <= 1
                      /\ \A i \in assigned :
                            /\ st.vertexParents[v] = dfs.run.events[i].v0
                            /\ GraphHasEdge(graph, dfs.run.events[i].v0, v)
                      /\ st.vertexParents[v] # -1 =>
                            /\ assigned # {}
                            /\ v \in found /\ st.vertexParents[v] \in found
                            /\ DfsIntervalContains(st, st.vertexParents[v], v)

\* C22 witness: a directed graph with the one edge 0->1, searched from 0 and
\* then from 2: [1,4] contains [2,3], and [5,6] is disjoint from both.
C22_Witness ==
    /\ dfs.pc = "created" /\ dfs.roots = <<0, 2>>
    /\ graph.edgeMode = kAlgoGraphEdgeDirected
    /\ GraphDests(graph, 0) = <<1>>
    /\ dfs.run.state.vertexEntryTime = [v \in 0..2 |-> IF v = 0 THEN 1 ELSE IF v = 1 THEN 2 ELSE 5]
    /\ dfs.run.state.vertexExitTime = [v \in 0..2 |-> IF v = 0 THEN 4 ELSE IF v = 1 THEN 3 ELSE 6]
    /\ dfs.run.state.vertexParents = [v \in 0..2 |-> IF v = 1 THEN 0 ELSE -1]

\* The positions in events of the calls of func with (v0, v1).
DfsCalls(events, func, v0, v1) ==
    {i \in 1..Len(events) :
        events[i].func = func /\ events[i].v0 = v0 /\ events[i].v1 = v1}

\* The vertices reachable from one of the roots.
DfsReachable(g, roots) ==
    UNION {GraphReachable(g, roots[i]) : i \in 1..Len(roots)}

\* C23: after the algoGraphDfs runs on one state: vertexFuncEarly and
\* vertexFuncLate were each called exactly once with every vertex reachable
\* from a root and with no other; the early call is made in the iteration that
\* finds the vertex undiscovered, right after its discovered bit is set; the
\* late call is made with the vertex discovered and not processed, in the
\* iteration that sets its processed bit, with the cursor exhausted and after
\* every edge event out of the vertex; early comes before late; vertexFuncLate(v) comes
\* before vertexFuncLate(parent[v]); over the iterations no bit is ever
\* cleared and a processed vertex is always discovered.
C23_DfsVertexCallbacks ==
    (dfs.pc = "created" /\ dfs.roots # <<>>) =>
        LET run    == dfs.run
            events == run.events
            steps  == run.steps
            reach  == DfsReachable(graph, dfs.roots)
        IN  /\ \A v \in GraphSlots(graph) \ reach :
                  /\ DfsCalls(events, "vertexFuncEarly", v, -1) = {}
                  /\ DfsCalls(events, "vertexFuncLate", v, -1) = {}
            /\ \A v \in reach :
                  LET early == DfsCalls(events, "vertexFuncEarly", v, -1)
                      late  == DfsCalls(events, "vertexFuncLate", v, -1)
                  IN  /\ Cardinality(early) = 1
                      /\ Cardinality(late) = 1
                      /\ \A e \in early, l \in late :
                            /\ e < l
                            /\ steps[events[e].step - 1].discovered[v] = 0
                            /\ events[e].bits.discovered[v] = 1
                            /\ events[e].bits.processed[v] = 0
                            /\ events[l].bits.discovered[v] = 1
                            /\ events[l].bits.processed[v] = 0
                            /\ steps[events[l].step].processed[v] = 1
                            /\ run.state.vertexNextEdge[v] = NULL
                            /\ \A i \in 1..Len(events) :
                                  (events[i].func \in {"edgeFunc", "parent"}
                                      /\ events[i].v0 = v) => i < l
                            /\ \A w \in reach :
                                  run.state.vertexParents[w] = v =>
                                      \A lw \in DfsCalls(events, "vertexFuncLate", w, -1) :
                                          lw < l
            /\ \A k \in 1..Len(steps) : \A v \in GraphSlots(graph) :
                  /\ steps[k].processed[v] = 1 => steps[k].discovered[v] = 1
                  /\ k < Len(steps) =>
                        /\ steps[k].discovered[v] <= steps[k + 1].discovered[v]
                        /\ steps[k].processed[v] <= steps[k + 1].processed[v]

\* C23 witness: the directed path 0->1->2 searched from 0: the vertices are
\* entered in the order 0, 1, 2 and left in the order 2, 1, 0.
C23_Witness ==
    /\ dfs.pc = "created" /\ dfs.roots = <<0>>
    /\ graph.edgeMode = kAlgoGraphEdgeDirected
    /\ GraphDests(graph, 0) = <<1>> /\ GraphDests(graph, 1) = <<2>>
    /\ [i \in 1..Len(dfs.run.events) |-> <<dfs.run.events[i].func, dfs.run.events[i].v0>>]
          = << <<"vertexFuncEarly", 0>>, <<"parent", 0>>, <<"edgeFunc", 0>>,
               <<"vertexFuncEarly", 1>>, <<"parent", 1>>, <<"edgeFunc", 1>>,
               <<"vertexFuncEarly", 2>>, <<"vertexFuncLate", 2>>,
               <<"vertexFuncLate", 1>>, <<"vertexFuncLate", 0>> >>

\* C24: after the algoGraphDfs runs on one state, edgeFunc was called only
\* with edges v0->v1 of the graph whose source is reachable from a root; in a
\* directed graph exactly once with every such edge; in an undirected graph
\* exactly once for every edge {u, v} among the reachable vertices, counting
\* the calls with (u, v) and with (v, u) together, and never with the edge
\* from a vertex to its parent.
C24_DfsEdgeFuncOncePerEdge ==
    (dfs.pc = "created" /\ dfs.roots # <<>>) =>
        LET events == dfs.run.events
            reach  == DfsReachable(graph, dfs.roots)
        IN  /\ \A i \in 1..Len(events) :
                  events[i].func = "edgeFunc" =>
                      /\ events[i].v0 \in reach
                      /\ GraphHasEdge(graph, events[i].v0, events[i].v1)
                      /\ graph.edgeMode = kAlgoGraphEdgeUndirected =>
                            dfs.run.state.vertexParents[events[i].v0] # events[i].v1
            /\ \A u \in reach, v \in GraphValidIds(graph) :
                  GraphHasEdge(graph, u, v) =>
                      IF graph.edgeMode = kAlgoGraphEdgeDirected
                      THEN Cardinality(DfsCalls(events, "edgeFunc", u, v)) = 1
                      ELSE Cardinality(DfsCalls(events, "edgeFunc", u, v))
                               + Cardinality(DfsCalls(events, "edgeFunc", v, u)) = 1

\* C24 witness: the undirected triangle on 0, 1, 2 searched from 0: three
\* edgeFunc calls, two with tree edges and one with the edge from the deepest
\* vertex back to the root, which is discovered and is not its parent.
C24_Witness ==
    /\ dfs.pc = "created" /\ dfs.roots = <<0>>
    /\ graph.edgeMode = kAlgoGraphEdgeUndirected
    /\ graph.currentEdgeCount = 3
    /\ Cardinality({i \in 1..Len(dfs.run.events) : dfs.run.events[i].func = "edgeFunc"}) = 3
    /\ \E i \in 1..Len(dfs.run.events) :
          /\ dfs.run.events[i].func = "edgeFunc"
          /\ dfs.run.events[i].v1 = 0
          /\ dfs.run.events[i].bits.discovered[0] = 1
          /\ dfs.run.state.vertexParents[dfs.run.events[i].v0] # 0

(***************************************************************************)
(* Topological sort: claims                                                *)
(***************************************************************************)

\* The graph has a cycle: an edge v->w with a path from w back to v.
GraphHasCycle(g) ==
    \E v \in GraphValidIds(g), w \in GraphValidIds(g) :
        GraphHasEdge(g, v, w) /\ v \in GraphReachable(g, w)

\* The output array as the caller passed it to the last sort: every element -1.
TopoOutBefore == [i \in 0..(topo.sortedVertexCount - 1) |-> -1]

\* The call had an output array and a buffer that are large enough.
TopoArgsValid ==
    /\ topo.sortedVertexCount >= graph.currentVertexCount
    /\ topo.bufferSize >= algoGraphTopoSortComputeBufferSize(graph).size

\* C25: algoGraphTopoSort on a directed graph without a cycle, with n valid
\* vertices (also after a vertex was removed and its id used again) and valid
\* arguments, returns OK without a failed assertion; out[0..n-1] holds exactly
\* the n valid ids, each once; every edge u->v has u at a smaller index than v;
\* the elements from n on are untouched.
C25_TopoSortOrdersDag ==
    (/\ topo.pc = "done"
     /\ TopoArgsValid
     /\ graph.edgeMode = kAlgoGraphEdgeDirected
     /\ ~GraphHasCycle(graph)) =>
        LET n   == graph.currentVertexCount
            out == topo.outSortedVertices
        IN  /\ topo.err = kAlgoErrorNone
            /\ ~topo.assertFailed
            /\ {out[i] : i \in 0..(n - 1)} = GraphValidIds(graph)
            /\ Cardinality(GraphValidIds(graph)) = n
            /\ \A i \in n..(topo.sortedVertexCount - 1) : out[i] = -1
            /\ \A i \in 0..(n - 1), j \in 0..(n - 1) :
                  GraphHasEdge(graph, out[i], out[j]) => i < j

\* C25 witness: after a vertex was removed and its slot used again, the graph
\* with the edges 2->1 and 1->0 is sorted as 2, 1, 0.
C25_Witness ==
    /\ topo.pc = "done" /\ topo.err = kAlgoErrorNone
    /\ ~graphFresh
    /\ graph.currentVertexCount = 3
    /\ GraphDests(graph, 2) = <<1>> /\ GraphDests(graph, 1) = <<0>>
    /\ GraphDests(graph, 0) = <<>>
    /\ topo.outSortedVertices = [i \in 0..2 |-> 2 - i]

\* C26: algoGraphTopoSort on a directed graph that has a cycle, with valid
\* arguments, returns OperationFailed.
C26_TopoSortCycleFails ==
    (/\ topo.pc = "done"
     /\ TopoArgsValid
     /\ graph.edgeMode = kAlgoGraphEdgeDirected
     /\ GraphHasCycle(graph)) =>
        topo.err = kAlgoErrorOperationFailed

\* C26 witness: the cycle 0->1->0 is sorted with the result OK, after the
\* assertion of iGraphTopoSortEdge on the back edge 1->0 failed.
C26_Witness ==
    /\ topo.pc = "done" /\ TopoArgsValid
    /\ graph.edgeMode = kAlgoGraphEdgeDirected
    /\ GraphDests(graph, 0) = <<1>> /\ GraphDests(graph, 1) = <<0>>
    /\ topo.err = kAlgoErrorNone
    /\ topo.assertFailed

\* C27: algoGraphTopoSort with an output array of fewer than
\* currentVertexCount elements returns InvalidArgument; on an undirected graph,
\* with an output array that is long enough, it returns OperationFailed; in
\* both cases the output array is as it was before the call.
C27_TopoSortRejects ==
    topo.pc = "done" =>
        /\ topo.sortedVertexCount < graph.currentVertexCount =>
              /\ topo.err = kAlgoErrorInvalidArgument
              /\ topo.outSortedVertices = TopoOutBefore
        /\ (/\ topo.sortedVertexCount >= graph.currentVertexCount
            /\ graph.edgeMode = kAlgoGraphEdgeUndirected) =>
              /\ topo.err = kAlgoErrorOperationFailed
              /\ topo.outSortedVertices = TopoOutBefore

\* C27 witness: an undirected graph of two vertices and an edge, sorted into
\* an array of two elements: OperationFailed, both elements still -1.
C27_Witness ==
    /\ topo.pc = "done"
    /\ graph.edgeMode = kAlgoGraphEdgeUndirected
    /\ graph.currentVertexCount = 2 /\ graph.currentEdgeCount = 1
    /\ topo.sortedVertexCount = 2
    /\ topo.err = kAlgoErrorOperationFailed
    /\ topo.outSortedVertices = [i \in 0..1 |-> -1]

(***************************************************************************)
(* Construction: claims                                                    *)
(***************************************************************************)

\* C28: for every container type, a ComputeBufferSize or Create call with a
\* zero or negative capacity (element count, stack, queue or heap capacity,
\* vertex or edge capacity) returns InvalidArgument and constructs nothing.
C28_CtorRejectsNonPositiveCapacity ==
    (ctor.pc = "done" /\ \E capacity \in ctor.capacities : capacity <= 0)
        => /\ ctor.err = kAlgoErrorInvalidArgument
           /\ ctor.object = <<>>

\* C28 witness: algoHeapCreate was called with a heap capacity of 0 and a
\* buffer of the computed size, returned no error and constructed a heap.
C28_Witness ==
    /\ ctor.pc = "done" /\ ctor.type = "heap" /\ ctor.op = "Create"
    /\ ctor.capacities = {0}
    /\ ctor.bufferSize = algoHeapComputeBufferSize(0).size
    /\ ctor.err = kAlgoErrorNone
    /\ ctor.object # <<>>

\* What ComputeBufferSize returns for the parameters of the call c.
CtorComputeBufferSize(c) ==
    CASE c.type = "pool"  -> algoAllocPoolComputeBufferSize(c.args[1], c.args[2])
      [] c.type = "stack" -> algoStackComputeBufferSize(c.args[1])
      [] c.type = "queue" -> algoQueueComputeBufferSize(c.args[1])
      [] c.type = "heap"  -> algoHeapComputeBufferSize(c.args[1])
      [] c.type = "graph" -> algoGraphComputeBufferSize(c.args[1], c.args[2], c.args[3])

\* The object o of the given type holds nothing: a pool with all its blocks on
\* the free list, a stack, queue or heap of size 0, a graph with no vertices
\* and no edges and all the blocks of its edge pool free.
CtorIsEmpty(type, o) ==
    LET poolAllFree(p) ==
            LET free == iPoolFreeIndices(p, p.headIndex, p.elementCount + 1) IN
            /\ Len(free) = p.elementCount
            /\ {free[i] : i \in 1..Len(free)} = 0..(p.elementCount - 1)
    IN  CASE type = "pool"  -> poolAllFree(o)
          [] type = "stack" -> algoStackGetCurrentSize(o) = 0
          [] type = "queue" -> algoQueueGetCurrentSize(o) = 0
          [] type = "heap"  -> iHeapCurrentSize(o) = 0
          [] type = "graph" ->
                /\ o.currentVertexCount = 0 /\ o.currentEdgeCount = 0
                /\ \A v \in 0..(o.vertexCapacity - 1) :
                      ~iGraphIsValidVertexId(o, v) /\ o.vertexEdges[v] = NULL
                /\ poolAllFree(o.edgePool)

\* C29: for every container type and valid parameters, Create returns
\* InvalidArgument when bufferSize is smaller than the size ComputeBufferSize
\* returns for the same parameters; when it succeeds, the bytes it carves out
\* of the buffer total exactly that size, and the new object is empty.
C29_CreateMatchesComputeBufferSize ==
    (ctor.pc = "done" /\ ctor.op = "Create"
         /\ \A capacity \in ctor.capacities : capacity >= 1)
        => /\ CtorComputeBufferSize(ctor).err = kAlgoErrorNone
           /\ ctor.bufferSize < CtorComputeBufferSize(ctor).size
                  => ctor.err = kAlgoErrorInvalidArgument /\ ctor.object = <<>>
           /\ ctor.bufferSize >= CtorComputeBufferSize(ctor).size
                  => ctor.err = kAlgoErrorNone
           /\ ctor.err = kAlgoErrorNone
                  => /\ ctor.bytes = CtorComputeBufferSize(ctor).size
                     /\ Len(ctor.object) = 1
                     /\ CtorIsEmpty(ctor.type, ctor.object[1])

\* C29 witness: a queue of capacity 2 was created in a buffer of exactly the
\* computed size, the header and three slots.
C29_Witness ==
    /\ ctor.pc = "done" /\ ctor.type = "queue" /\ ctor.op = "Create"
    /\ ctor.args = <<2>>
    /\ ctor.bufferSize = SizeofAlgoQueueImpl + 3 * SizeofAlgoData
    /\ ctor.err = kAlgoErrorNone
    /\ ctor.bytes = ctor.bufferSize
    /\ algoQueueGetCurrentSize(ctor.object[1]) = 0

(***************************************************************************)
(* Failure atomicity: claims                                               *)
(***************************************************************************)

\* The call returned InvalidArgument or OperationFailed.
CallFailed(err) == err \in {kAlgoErrorInvalidArgument, kAlgoErrorOperationFailed}

\* The pointers a client passes to algoAllocPoolFree: NULL, every block of the
\* pool, and pointers that are no block of it.
PoolFreeArgs(p) ==
    {NULL} \cup {PoolBlockAddresses(p)[i] : i \in 1..p.elementCount}
           \cup PoolForeignPointers(p)

\* C30: in every reachable state of a pool, stack, queue, heap or graph, a
\* mutating call (Alloc, Free, Push, Pop, Resize, Insert, Remove, heap Insert
\* and Pop, AddVertex, RemoveVertex, AddEdge, RemoveEdge, SetVertexData) that
\* returns InvalidArgument or OperationFailed leaves the object's state
\* exactly as it was before the call.
C30_FailureAtomicity ==
    /\ \A hasOut \in BOOLEAN :
          CallFailed(algoAllocPoolAlloc(pool, hasOut).err)
              => algoAllocPoolAlloc(pool, hasOut).pool = pool
    /\ \A elem \in PoolFreeArgs(pool) :
          CallFailed(algoAllocPoolFree(pool, elem).err)
              => algoAllocPoolFree(pool, elem).pool = pool
    /\ \A elem \in Data :
          CallFailed(algoStackPush(stack, elem).err)
              => algoStackPush(stack, elem).stack = stack
    /\ \A hasOut \in BOOLEAN :
          CallFailed(algoStackPop(stack, hasOut).err)
              => algoStackPop(stack, hasOut).stack = stack
    /\ \A newStackCapacity \in 0..(MaxStackCapacity + 1) :
          CallFailed(algoStackResize(stack, newStackCapacity, stack.thisBufferSize).err)
              => algoStackResize(stack, newStackCapacity, stack.thisBufferSize).stack = stack
    /\ \A elem \in Data :
          CallFailed(algoQueueInsert(queue, elem).err)
              => algoQueueInsert(queue, elem).queue = queue
    /\ \A hasOut \in BOOLEAN :
          CallFailed(algoQueueRemove(queue, hasOut).err)
              => algoQueueRemove(queue, hasOut).queue = queue
    /\ \A pair \in HeapPairs :
          CallFailed(algoHeapInsert(heap, pair.key, pair.data).err)
              => algoHeapInsert(heap, pair.key, pair.data).heap = heap
    /\ \A hasKey \in BOOLEAN, hasData \in BOOLEAN :
          CallFailed(algoHeapPop(heap, hasKey, hasData).err)
              => algoHeapPop(heap, hasKey, hasData).heap = heap
    /\ \A data \in GraphVertexData, hasOut \in BOOLEAN :
          CallFailed(algoGraphAddVertex(graph, data, hasOut).err)
              => algoGraphAddVertex(graph, data, hasOut).graph = graph
    /\ \A vertexId \in GraphVertexIdArgs(graph) :
          /\ CallFailed(algoGraphRemoveVertex(graph, vertexId).err)
                => algoGraphRemoveVertex(graph, vertexId).graph = graph
          /\ \A value \in GraphVertexData :
                CallFailed(algoGraphSetVertexData(graph, vertexId, value).err)
                    => algoGraphSetVertexData(graph, vertexId, value).graph = graph
    /\ \A srcVertexId \in GraphVertexIdArgs(graph), destVertexId \in GraphVertexIdArgs(graph) :
          /\ CallFailed(algoGraphAddEdge(graph, srcVertexId, destVertexId).err)
                => algoGraphAddEdge(graph, srcVertexId, destVertexId).graph = graph
          /\ CallFailed(algoGraphRemoveEdge(graph, srcVertexId, destVertexId).err)
                => algoGraphRemoveEdge(graph, srcVertexId, destVertexId).graph = graph

\* C30 witness: an undirected graph of three vertices whose one edge 0-1 uses
\* up the edge pool; adding the edge 1-2 returns OperationFailed.
C30_Witness ==
    /\ client = "graph"
    /\ graph.edgeMode = kAlgoGraphEdgeUndirected
    /\ graph.currentVertexCount = 3 /\ graph.edgeCapacity = 1
    /\ graph.currentEdgeCount = 1
    /\ GraphHasEdge(graph, 0, 1) /\ GraphHasEdge(graph, 1, 0)
    /\ algoGraphAddEdge(graph, 1, 2).err = kAlgoErrorOperationFailed
    /\ algoGraphAddEdge(graph, 1, 2).graph = graph

(***************************************************************************)
(* Pool: the free list and the argument check of Free                      *)
(***************************************************************************)

\* The walk along the free list from index, reading the index stored in the
\* first 4 bytes of each block: the blocks visited, and whether the walk
\* reached -1 without leaving the pool and without coming to a block twice.
RECURSIVE PoolFreeListWalk(_, _, _)
PoolFreeListWalk(p, index, visited) ==
    IF index = -1 THEN [ok |-> TRUE, blocks |-> visited]
    ELSE IF index \notin 0..(p.elementCount - 1) \/ index \in visited
    THEN [ok |-> FALSE, blocks |-> visited]
    ELSE PoolFreeListWalk(p, p.mem[index], visited \cup {index})

\* The indices of the blocks the client holds.
PoolHeldIndices == {iPoolIndexOf(pool, elem) : elem \in poolHeld}

\* C31: in every state reached by Alloc and by Free of blocks that are
\* allocated, headIndex is -1 or a block index, and the free list from
\* headIndex reaches -1 without repeating a block and visits exactly the
\* blocks that are not allocated, so that free and allocated blocks add up to
\* elementCount.
C31_PoolFreeListInvariant ==
    LET walk == PoolFreeListWalk(pool, pool.headIndex, {}) IN
    /\ pool.headIndex \in {-1} \cup 0..(pool.elementCount - 1)
    /\ walk.ok
    /\ walk.blocks = (0..(pool.elementCount - 1)) \ PoolHeldIndices
    /\ Cardinality(walk.blocks) + Cardinality(poolHeld) = pool.elementCount

\* C31 witness: of three blocks the client holds block 1, into which it wrote
\* a word that looks like a link; it freed block 0 first and block 2 last, so
\* that the free list is 2, 0.
C31_Witness ==
    /\ pool.elementCount = 3
    /\ PoolHeldIndices = {1}
    /\ pool.mem[1] = 0
    /\ poolLast.op = "Free"
    /\ pool.headIndex = 2 /\ pool.mem[2] = 0 /\ pool.mem[0] = -1

\* The pointers around and inside the arena that are no block of the pool:
\* before the arena, at its end and past it, and inside a block.
PoolNonBlockPointers(p) ==
    { elem \in (p.pool - 2)..(p.pool + p.elementCount * p.elementSize + p.elementSize) :
          \/ elem < p.pool
          \/ elem >= p.pool + p.elementCount * p.elementSize
          \/ (elem - p.pool) % p.elementSize # 0 }

\* C32: Free(NULL) returns OK and changes nothing; Free(p) with p before the
\* arena, at or past its end, or not at a multiple of elementSize from the
\* arena's start returns InvalidArgument and changes nothing.
C32_PoolFreeRejectsNonBlocks ==
    /\ algoAllocPoolFree(pool, NULL) = [err |-> kAlgoErrorNone, pool |-> pool]
    /\ \A elem \in PoolNonBlockPointers(pool) :
          algoAllocPoolFree(pool, elem) = [err |-> kAlgoErrorInvalidArgument, pool |-> pool]
    /\ (poolLast.op = "FreeForeign") =>
          poolLast.err = (IF poolLast.ptr = NULL THEN kAlgoErrorNone
                          ELSE kAlgoErrorInvalidArgument)

\* C32 witness: while it holds two blocks, the client frees a pointer one byte
\* into the first block and gets InvalidArgument.
C32_Witness ==
    /\ poolLast.op = "FreeForeign"
    /\ poolLast.ptr = pool.pool + 1
    /\ poolLast.err = kAlgoErrorInvalidArgument
    /\ Cardinality(poolHeld) = 2
    /\ pool.pool + 1 \in PoolNonBlockPointers(pool)

\* The client frees a block it does not hold: one that no Alloc has returned
\* yet, or one it has freed already.  The pool is not used after that.
PoolFreeUnheld ==
    /\ poolLast.op # "FreeUnheld"
    /\ \E i \in 1..pool.elementCount :
          LET elem == PoolBlockAddresses(pool)[i]
              r    == algoAllocPoolFree(pool, elem)
          IN  /\ elem \notin poolHeld
              /\ pool' = r.pool
              /\ poolLast' = PoolCall("FreeUnheld", r.err, TRUE, elem)
    /\ UNCHANGED <<poolHeld, poolFreeOrder>>
    /\ UNCHANGED <<stackVars, queueVars, heapVars, graphVars, bfsVars, dfsVars, ctorVars>>

\* C33, as claimed: Free(p) returns InvalidArgument and leaves the pool as it
\* was whenever p is not a block the client holds, also when p is a block of
\* the pool that is on the free list.
C33_PoolFreeRejectsUnallocated ==
    \A elem \in PoolFreeArgs(pool) \ ({NULL} \cup poolHeld) :
        algoAllocPoolFree(pool, elem) = [err |-> kAlgoErrorInvalidArgument, pool |-> pool]

\* C33, amended: Free(p) of a non-null p returns InvalidArgument, and leaves
\* the pool as it was, exactly when p is not the address of a block of the
\* pool.  A block that is on the free list is accepted like a held one:
\* Free returns OK, stores the old head index in the block and makes the
\* block the head.
C33_PoolFreeNoDoubleFreeDetection ==
    /\ \A elem \in PoolFreeArgs(pool) \ {NULL} :
          LET r == algoAllocPoolFree(pool, elem) IN
          /\ r.err = kAlgoErrorInvalidArgument <=> ~iPoolIsBlockAddress(pool, elem)
          /\ r.err = kAlgoErrorInvalidArgument => r.pool = pool
          /\ r.err \in {kAlgoErrorNone, kAlgoErrorInvalidArgument}
    /\ (poolLast.op = "FreeUnheld") =>
          /\ poolLast.err = kAlgoErrorNone
          /\ pool.headIndex = iPoolIndexOf(pool, poolLast.ptr)
          /\ pool.mem[pool.headIndex] = poolLast.headBefore

\* C33 witness: the client frees a block and frees it again; the second Free
\* returns OK and the block is now linked to itself.
C33_Witness ==
    /\ poolLast.op = "FreeUnheld" /\ poolLast.err = kAlgoErrorNone
    /\ poolLast.prevOp = "Free" /\ poolLast.prevPtr = poolLast.ptr
    /\ pool.mem[pool.headIndex] = pool.headIndex

(***************************************************************************)
(* Heap: Pop against the reference Pop                                     *)
(***************************************************************************)

\* The reference bubble-down from index i, in a heap whose nextEmpty no longer
\* counts the popped node: the smaller child (the left one when the two tie)
\* is swapped with the current node if its key is strictly smaller.
RECURSIVE HeapReferenceBubbleDown(_, _)
HeapReferenceBubbleDown(h, i) ==
    LET left  == 2 * i
        right == 2 * i + 1
        child == IF right < h.nextEmpty
                    /\ keyCompare(h, h.nodes[right].key, h.nodes[left].key) < 0
                 THEN right ELSE left
    IN  IF left >= h.nextEmpty THEN h
        ELSE IF keyCompare(h, h.nodes[child].key, h.nodes[i].key) < 0
        THEN HeapReferenceBubbleDown(
                 [h EXCEPT !.nodes[i] = h.nodes[child], !.nodes[child] = h.nodes[i]], child)
        ELSE h

\* The reference Pop of a heap that is not empty: the last element moves to
\* the root, nextEmpty is decremented, then the root bubbles down.
HeapReferencePop(h) ==
    HeapReferenceBubbleDown(
        [h EXCEPT !.nodes[kAlgoHeapRootIndex] = h.nodes[h.nextEmpty - 1],
                  !.nextEmpty = h.nextEmpty - 1],
        kAlgoHeapRootIndex)

\* C34: for every heap state that is not empty, under either comparator,
\* algoHeapPop (root overwritten with the last element, bubble-down while the
\* stale last slot is still below nextEmpty, nextEmpty decremented last)
\* leaves the same nextEmpty and the same nodes[1 .. nextEmpty-1] as the
\* reference Pop.
C34_HeapPopRefinesReference ==
    iHeapCurrentSize(heap) > 0 =>
        LET code == algoHeapPop(heap, TRUE, TRUE).heap
            ref  == HeapReferencePop(heap)
        IN  /\ code.nextEmpty = ref.nextEmpty
            /\ code.nextEmpty = heap.nextEmpty - 1
            /\ \A i \in kAlgoHeapRootIndex..(code.nextEmpty - 1) :
                  code.nodes[i] = ref.nodes[i]

\* C34 witness: a heap of four nodes whose last element, moved to the root,
\* is swapped with node 2 and then has the stale slot 4 as its left child,
\* still below nextEmpty.
C34_Witness ==
    /\ iHeapCurrentSize(heap) = 4
    /\ keyCompare(heap, heap.nodes[2].key, heap.nodes[4].key) < 0
    /\ keyCompare(heap, heap.nodes[3].key, heap.nodes[2].key) >= 0
    /\ algoHeapPop(heap, TRUE, TRUE).heap.nodes[2] = heap.nodes[4]
    /\ algoHeapPop(heap, TRUE, TRUE).heap.nodes[4] = heap.nodes[4]
    /\ HeapReferencePop(heap).nodes[2] = heap.nodes[4]

(***************************************************************************)
(* Graph queries: claims                                                   *)
(***************************************************************************)

\* The caller's array before a GetVertexEdges call: vertexCapacity elements,
\* all -1.
GraphQueryArray(g) == [i \in 0..(g.vertexCapacity - 1) |-> -1]

\* What GetVertexEdges writes for the valid vertex v when it is given v's
\* degree, as a sequence.
GraphEdgesOf(g, v) ==
    LET r == algoGraphGetVertexEdges(g, v, g.vertexDegrees[v], TRUE, GraphQueryArray(g))
    IN  [i \in 1..g.vertexDegrees[v] |-> r.outDestVertexIds[i - 1]]

\* The data GetVertexData returns for the vertex v.
GraphDataOf(g, v) == algoGraphGetVertexData(g, v, TRUE).outValue

\* The sequence s without its elements equal to x, order kept.
SeqWithout(s, x) == SelectSeq(s, LAMBDA e : e # x)

\* x occurs in the sequence s.
SeqHas(s, x) == \E i \in 1..Len(s) : s[i] = x

\* GetVertexEdges on g: InvalidArgument, with the array left alone, unless src
\* is valid and degree is its degree; else exactly degree ids are written, in
\* list order, without repetition, and they are the v with an edge src->v.
GraphQueryIsExact(g) ==
    \A src \in GraphVertexIdArgs(g), degree \in -1..g.vertexCapacity :
        LET r == algoGraphGetVertexEdges(g, src, degree, TRUE, GraphQueryArray(g))
            out == r.outDestVertexIds
        IN  /\ r.err \in {kAlgoErrorNone, kAlgoErrorInvalidArgument}
            /\ r.err = kAlgoErrorNone
                   <=> (iGraphIsValidVertexId(g, src) /\ degree = g.vertexDegrees[src])
            /\ r.err = kAlgoErrorInvalidArgument => out = GraphQueryArray(g)
            /\ algoGraphGetVertexEdges(g, src, degree, FALSE, GraphQueryArray(g)).err
                   = kAlgoErrorInvalidArgument
            /\ r.err = kAlgoErrorNone =>
                  /\ ~r.assertFailed
                  /\ \A i \in DOMAIN out : i >= degree => out[i] = -1
                  /\ [i \in 1..degree |-> out[i - 1]] = iGraphListDests(g, g.vertexEdges[src])
                  /\ {out[i] : i \in 0..(degree - 1)}
                         = {v \in GraphValidIds(g) : GraphHasEdge(g, src, v)}
                  /\ Cardinality({out[i] : i \in 0..(degree - 1)}) = degree

\* The lists GetVertexEdges reports change only at the head: a new edge is
\* reported first, in front of the older ones; a removal takes ids out and
\* keeps the order of the rest.
GraphListsKeepOrder(g) ==
    LET undirected == g.edgeMode = kAlgoGraphEdgeUndirected IN
    /\ \A s \in GraphVertexIdArgs(g), d \in GraphVertexIdArgs(g) :
          /\ LET r == algoGraphAddEdge(g, s, d) IN
             r.err = kAlgoErrorNone =>
                 \A v \in GraphValidIds(g) :
                     GraphEdgesOf(r.graph, v) =
                         IF v = s /\ ~SeqHas(GraphEdgesOf(g, s), d)
                         THEN <<d>> \o GraphEdgesOf(g, s)
                         ELSE IF undirected /\ v = d /\ ~SeqHas(GraphEdgesOf(g, d), s)
                         THEN <<s>> \o GraphEdgesOf(g, d)
                         ELSE GraphEdgesOf(g, v)
          /\ LET r == algoGraphRemoveEdge(g, s, d) IN
             r.err = kAlgoErrorNone =>
                 \A v \in GraphValidIds(g) :
                     GraphEdgesOf(r.graph, v) =
                         IF v = s THEN SeqWithout(GraphEdgesOf(g, s), d)
                         ELSE IF undirected /\ v = d THEN SeqWithout(GraphEdgesOf(g, d), s)
                         ELSE GraphEdgesOf(g, v)
    /\ \A x \in GraphVertexIdArgs(g) :
          LET r == algoGraphRemoveVertex(g, x) IN
          r.err = kAlgoErrorNone =>
              /\ ~r.assertFailed
              /\ GraphValidIds(r.graph) = GraphValidIds(g) \ {x}
              /\ \A v \in GraphValidIds(g) \ {x} :
                    GraphEdgesOf(r.graph, v) = SeqWithout(GraphEdgesOf(g, v), x)
    /\ \A data \in GraphVertexData :
          LET r == algoGraphAddVertex(g, data, TRUE) IN
          (r.err = kAlgoErrorNone /\ ~r.assertFailed) =>
              /\ GraphEdgesOf(r.graph, r.outVertexId) = <<>>
              /\ \A v \in GraphValidIds(g) : GraphEdgesOf(r.graph, v) = GraphEdgesOf(g, v)

\* GetVertexData reports, for a valid vertex, the value AddVertex or
\* SetVertexData stored last: each of the two stores its value for its
\* vertex, and no call changes the value of another valid vertex.
GraphDataIsLastStored(g) ==
    /\ \A v \in GraphVertexIdArgs(g) :
          /\ algoGraphGetVertexData(g, v, TRUE).err =
                 (IF iGraphIsValidVertexId(g, v) THEN kAlgoErrorNone
                  ELSE kAlgoErrorInvalidArgument)
          /\ algoGraphGetVertexData(g, v, FALSE).err = kAlgoErrorInvalidArgument
    /\ \A data \in GraphVertexData :
          /\ LET r == algoGraphAddVertex(g, data, TRUE) IN
             (r.err = kAlgoErrorNone /\ ~r.assertFailed) =>
                 /\ r.outVertexId \notin GraphValidIds(g)
                 /\ GraphDataOf(r.graph, r.outVertexId) = data
                 /\ \A w \in GraphValidIds(g) : GraphDataOf(r.graph, w) = GraphDataOf(g, w)
          /\ \A v \in GraphVertexIdArgs(g) :
                LET r == algoGraphSetVertexData(g, v, data) IN
                r.err = kAlgoErrorNone =>
                    /\ GraphDataOf(r.graph, v) = data
                    /\ \A w \in GraphValidIds(g) \ {v} :
                          GraphDataOf(r.graph, w) = GraphDataOf(g, w)
    /\ \A s \in GraphVertexIdArgs(g), d \in GraphVertexIdArgs(g) :
          \A w \in GraphValidIds(g) :
              /\ GraphDataOf(algoGraphAddEdge(g, s, d).graph, w) = GraphDataOf(g, w)
              /\ GraphDataOf(algoGraphRemoveEdge(g, s, d).graph, w) = GraphDataOf(g, w)
    /\ \A x \in GraphVertexIdArgs(g) :
          \A w \in GraphValidIds(g) \ {x} :
              GraphDataOf(algoGraphRemoveVertex(g, x).graph, w) = GraphDataOf(g, w)

\* C35: GetVertexEdges(src, degree, out) returns InvalidArgument unless src is
\* valid and degree is src's current degree; on success it writes exactly
\* degree destination ids in list order, most recently added edge first, and
\* they are the v for which the edge src->v exists; GetVertexData returns the
\* value AddVertex or SetVertexData stored last for the vertex.
C35_GraphQueries ==
    /\ GraphQueryIsExact(graph)
    /\ GraphListsKeepOrder(graph)
    /\ GraphDataIsLastStored(graph)

\* C35 witness: a directed graph in which vertex 0 has edges to 1 and 2;
\* removing the edge 0->1 and adding it again moves 1 to the front of what
\* GetVertexEdges reports, and vertex 0 holds the data 1 that replaced the
\* link left in its slot.
C35_Witness ==
    /\ graph.edgeMode = kAlgoGraphEdgeDirected
    /\ GraphValidIds(graph) = {0, 1, 2}
    /\ GraphEdgesOf(graph, 0) = <<2, 1>>
    /\ GraphEdgesOf(algoGraphAddEdge(algoGraphRemoveEdge(graph, 0, 2).graph, 0, 2).graph, 0)
           = <<2, 1>>
    /\ GraphEdgesOf(algoGraphAddEdge(algoGraphRemoveEdge(graph, 0, 1).graph, 0, 1).graph, 0)
           = <<1, 2>>
    /\ GraphDataOf(graph, 0) = 1

(***************************************************************************)
(* Breadth-first search: termination and the queue                         *)
(***************************************************************************)

\* The events of a run of the given kind, in order, and their positions.
BfsEventsOf(events, func) == SelectSeq(events, LAMBDA e : e.func = func)
BfsPositions(events, func, v0) ==
    {i \in 1..Len(events) : events[i].func = func /\ events[i].v0 = v0}

BfsEnqueued(run) ==
    LET found == BfsEventsOf(run.events, "discover") IN
    <<run.root>> \o [i \in 1..Len(found) |-> found[i].v1]
BfsDequeued(run) ==
    LET early == BfsEventsOf(run.events, "vertexFuncEarly") IN
    [i \in 1..Len(early) |-> early[i].v0]

\* The number of vertices in the queue after the first k events of the run.
BfsQueueSizeAfter(run, k) ==
    1 + Cardinality({i \in 1..k : run.events[i].func = "discover"})
      - Cardinality({i \in 1..k : run.events[i].func = "vertexFuncEarly"})

\* C39: during algoGraphBfs on a freshly created state every vertex is put
\* into the queue at most once, the queue never holds more than
\* vertexCapacity vertices and is not empty when a vertex is taken out, and
\* no algoQueueInsert or algoQueueRemove of the run fails: the vertices come
\* out of the queue exactly as they were put in.
C39_BfsQueueBound ==
    bfs.pc = "done" =>
        LET enq == BfsEnqueued(bfs) IN
        /\ ~bfs.assertFailed
        /\ \A i, j \in 1..Len(enq) : enq[i] = enq[j] => i = j
        /\ \A k \in 0..Len(bfs.events) :
              /\ BfsQueueSizeAfter(bfs, k) >= 0
              /\ BfsQueueSizeAfter(bfs, k) <= graph.vertexCapacity
              /\ BfsQueueSizeAfter(bfs, k) <= bfs.state.vertexQueue.capacity
        /\ \A k \in 1..Len(bfs.events) :
              bfs.events[k].func = "vertexFuncEarly" => BfsQueueSizeAfter(bfs, k - 1) >= 1
        /\ BfsDequeued(bfs) = enq
        /\ iQueueIsEmpty(bfs.state.vertexQueue)

\* C39 witness: vertex 0 of a directed graph has edges to 1 and 2; after 0 is
\* taken out both are put in, so that the queue holds two vertices.
C39_Witness ==
    /\ bfs.pc = "done" /\ bfs.root = 0
    /\ graph.edgeMode = kAlgoGraphEdgeDirected
    /\ graph.vertexDegrees[0] = 2
    /\ Len(BfsEnqueued(bfs)) = 3
    /\ \E k \in 1..Len(bfs.events) : BfsQueueSizeAfter(bfs, k) = 2
    /\ BfsDequeued(bfs) = BfsEnqueued(bfs)

(***************************************************************************)
(* Depth-first search: termination, edge types and the stack               *)
(***************************************************************************)

\* The search state has seen exactly one run.
DfsFirstRunDone == dfs.pc = "created" /\ Len(dfs.roots) = 1

\* C37: algoGraphDfs from a valid root on a freshly created state returns, on
\* graphs with and without cycles, with the stack empty and no assertion
\* failed; a vertex is discovered iff it is processed iff it is reachable
\* from root; currentTime is twice the number of discovered vertices and the
\* entry and exit times of the discovered vertices are distinct and are
\* exactly 1..currentTime.
C37_DfsRunsToCompletion ==
    DfsFirstRunDone =>
        LET st    == dfs.run.state
            reach == GraphReachable(graph, dfs.roots[1])
            disc  == DfsDiscovered(st)
            entry == {st.vertexEntryTime[v] : v \in disc}
            exit  == {st.vertexExitTime[v] : v \in disc}
        IN  /\ ~dfs.run.assertFailed
            /\ algoStackGetCurrentSize(st.vertexStack) = 0
            /\ \A v \in GraphSlots(graph) :
                  /\ iTestBit(st.isVertexDiscovered, v) = 1 <=> v \in reach
                  /\ iTestBit(st.isVertexProcessed, v) = 1 <=> v \in reach
            /\ st.currentTime = 2 * Cardinality(disc)
            /\ entry \cup exit = 1..st.currentTime
            /\ Cardinality(entry) = Cardinality(disc)
            /\ Cardinality(exit) = Cardinality(disc)
            /\ entry \cap exit = {}

\* C37 witness: the directed cycle 0->1->2->0 searched from 1: all three
\* vertices are processed and the clock stands at 6.
C37_Witness ==
    /\ DfsFirstRunDone /\ dfs.roots[1] = 1
    /\ graph.edgeMode = kAlgoGraphEdgeDirected
    /\ GraphDests(graph, 0) = <<1>> /\ GraphDests(graph, 1) = <<2>>
    /\ GraphDests(graph, 2) = <<0>>
    /\ dfs.run.state.currentTime = 6
    /\ dfs.run.state.vertexEntryTime = [v \in 0..2 |-> CASE v = 1 -> 1 [] v = 2 -> 2 [] v = 0 -> 3]
    /\ dfs.run.state.vertexExitTime = [v \in 0..2 |-> CASE v = 0 -> 4 [] v = 2 -> 5 [] v = 1 -> 6]

\* The four edge types as conditions on the state an edge callback sees.
DfsIsTreeEdge(dfsState, v0, v1) == dfsState.vertexParents[v1] = v0
DfsIsBackEdge(dfsState, v0, v1) ==
    /\ iTestBit(dfsState.isVertexDiscovered, v1) = 1
    /\ iTestBit(dfsState.isVertexProcessed, v1) = 0
DfsIsForwardEdge(dfsState, v0, v1) ==
    /\ iTestBit(dfsState.isVertexProcessed, v1) = 1
    /\ dfsState.vertexEntryTime[v1] > dfsState.vertexEntryTime[v0]
DfsIsCrossEdge(dfsState, v0, v1) ==
    /\ iTestBit(dfsState.isVertexProcessed, v1) = 1
    /\ dfsState.vertexEntryTime[v1] < dfsState.vertexEntryTime[v0]

\* The types whose condition holds for v0->v1 in dfsState.
DfsEdgeTypes(dfsState, v0, v1) ==
    {t \in {kGraphEdgeTypeTree, kGraphEdgeTypeBack, kGraphEdgeTypeForward,
            kGraphEdgeTypeCross} :
        \/ t = kGraphEdgeTypeTree /\ DfsIsTreeEdge(dfsState, v0, v1)
        \/ t = kGraphEdgeTypeBack /\ DfsIsBackEdge(dfsState, v0, v1)
        \/ t = kGraphEdgeTypeForward /\ DfsIsForwardEdge(dfsState, v0, v1)
        \/ t = kGraphEdgeTypeCross /\ DfsIsCrossEdge(dfsState, v0, v1)}

\* The edgeFunc calls of the run, in order; call k saw dfs.run.edgeStates[k].
DfsEdgeCalls == SelectSeq(dfs.run.events, LAMBDA e : e.func = "edgeFunc")

\* The edge types the classification of the code gives to the calls.
DfsObservedEdgeTypes ==
    {iGraphTopoSortEdgeType(dfs.run.edgeStates[k], DfsEdgeCalls[k].v0, DfsEdgeCalls[k].v1) :
        k \in 1..Len(DfsEdgeCalls)}

\* A directed cycle among the vertices reachable from root.
GraphCycleReachableFrom(g, root) ==
    \E v \in GraphReachable(g, root), w \in GraphReachable(g, root) :
        GraphHasEdge(g, v, w) /\ v \in GraphReachable(g, w)

\* C38: in a directed graph, for every edgeFunc call (v0, v1) of a search and
\* the state it is made with, exactly one of the conditions tree, back,
\* forward, cross holds and it is the type the classification computes (never
\* -1, the unclassified case); a search on a freshly created state sees a
\* back edge iff a directed cycle is reachable from its root.
C38_DfsEdgeClassification ==
    (dfs.pc = "created" /\ graph.edgeMode = kAlgoGraphEdgeDirected) =>
        /\ Len(dfs.run.edgeStates) = Len(DfsEdgeCalls)
        /\ \A k \in 1..Len(DfsEdgeCalls) :
              LET s  == dfs.run.edgeStates[k]
                  v0 == DfsEdgeCalls[k].v0
                  v1 == DfsEdgeCalls[k].v1
              IN  /\ DfsEdgeCalls[k].bits = DfsBits(s)
                  /\ DfsEdgeTypes(s, v0, v1) = {iGraphTopoSortEdgeType(s, v0, v1)}
        /\ DfsFirstRunDone =>
              (kGraphEdgeTypeBack \in DfsObservedEdgeTypes
                  <=> GraphCycleReachableFrom(graph, dfs.roots[1]))

\* C38 witness: one search of a directed graph with the edges 0->1, 0->2 and
\* 1->2 from 0 sees a tree edge and a forward edge and no back edge; there is
\* no cycle.
C38_Witness ==
    /\ DfsFirstRunDone /\ dfs.roots[1] = 0
    /\ graph.edgeMode = kAlgoGraphEdgeDirected
    /\ GraphHasEdge(graph, 0, 1) /\ GraphHasEdge(graph, 0, 2) /\ GraphHasEdge(graph, 1, 2)
    /\ Len(DfsEdgeCalls) = 3
    /\ kGraphEdgeTypeTree \in DfsObservedEdgeTypes
    /\ kGraphEdgeTypeForward \in DfsObservedEdgeTypes
    /\ kGraphEdgeTypeBack \notin DfsObservedEdgeTypes

\* The elements of a sequence are pairwise distinct.
SeqIsInjective(s) == \A i, j \in 1..Len(s) : s[i] = s[j] => i = j

\* C40: during the algoGraphDfs runs on a state, after the root is pushed and
\* after every iteration, the stack holds pairwise distinct vertices: all
\* discovered and not processed, except that the top one may be not yet
\* discovered; it never holds more than vertexCapacity vertices, and no
\* algoStackPush or algoStackPop of a run returned an error.
C40_DfsStackBound ==
    dfs.pc = "created" =>
        /\ ~dfs.run.stackFailed
        /\ \A k \in 1..Len(dfs.run.stacks) :
              LET c    == dfs.run.stacks[k].contents
                  bits == dfs.run.stacks[k].bits
              IN  /\ SeqIsInjective(c)
                  /\ Len(c) <= graph.vertexCapacity
                  /\ \A i \in 1..Len(c) :
                        /\ c[i] \in GraphValidIds(graph)
                        /\ bits.processed[c[i]] = 0
                        /\ i < Len(c) => bits.discovered[c[i]] = 1

\* C40 witness: a search of a path of three vertices had all three on the
\* stack, the top one not yet discovered.
C40_Witness ==
    /\ dfs.pc = "created" /\ Len(dfs.roots) >= 1
    /\ \E k \in 1..Len(dfs.run.stacks) :
          /\ Len(dfs.run.stacks[k].contents) = graph.vertexCapacity
          /\ dfs.run.stacks[k].bits.discovered[dfs.run.stacks[k].contents[3]] = 0

(***************************************************************************)
(* Specifications                                                          *)
(***************************************************************************)
InitPool == PoolInit /\ StackIdle /\ QueueIdle /\ HeapIdle /\ GraphIdle /\ BfsIdle /\ DfsIdle
                /\ CtorIdle /\ client = "pool"
NextPool == PoolAlloc \/ PoolFree \/ PoolFreeForeign \/ PoolWrite
SpecPool == InitPool /\ [][NextPool]_vars

\* The pool with a client that may free a block it does not hold, once.
NextPoolMisuse == \/ poolLast.op # "FreeUnheld" /\ PoolAlloc
                  \/ poolLast.op # "FreeUnheld" /\ PoolFree
                  \/ poolLast.op # "FreeUnheld" /\ PoolFreeForeign
                  \/ poolLast.op # "FreeUnheld" /\ PoolWrite
                  \/ PoolFreeUnheld
SpecPoolMisuse == InitPool /\ [][NextPoolMisuse]_vars

InitStack == PoolIdle /\ StackInit /\ QueueIdle /\ HeapIdle /\ GraphIdle /\ BfsIdle /\ DfsIdle
                /\ CtorIdle /\ client = "stack"
NextStack == StackPush \/ StackPop \/ StackResize
SpecStack == InitStack /\ [][NextStack]_vars

InitQueue == PoolIdle /\ StackIdle /\ QueueInit /\ HeapIdle /\ GraphIdle /\ BfsIdle /\ DfsIdle
                /\ CtorIdle /\ client = "queue"
NextQueue == QueueInsert \/ QueueRemove
SpecQueue == InitQueue /\ [][NextQueue]_vars

InitHeap == PoolIdle /\ StackIdle /\ QueueIdle /\ HeapInit /\ GraphIdle /\ BfsIdle /\ DfsIdle
                /\ CtorIdle /\ client = "heap"
NextHeap == HeapInsert \/ HeapPeek \/ HeapPop
SpecHeap == InitHeap /\ [][NextHeap]_vars

InitGraph == PoolIdle /\ StackIdle /\ QueueIdle /\ HeapIdle /\ GraphInit /\ BfsIdle /\ DfsIdle
                /\ CtorIdle /\ client = "graph"
NextGraph == GraphAddVertex \/ GraphRemoveVertex \/ GraphAddEdge \/ GraphRemoveEdge
                 \/ GraphSetVertexData
SpecGraph == InitGraph /\ [][NextGraph]_vars

InitBfs == PoolIdle /\ StackIdle /\ QueueIdle /\ HeapIdle /\ BfsInit /\ DfsIdle
                /\ CtorIdle /\ client = "bfs"
NextBfs == BfsAddVertex \/ BfsAddEdge \/ BfsRemoveVertex \/ BfsStateCreate \/ BfsRun
SpecBfs == InitBfs /\ [][NextBfs]_vars

InitDfs == PoolIdle /\ StackIdle /\ QueueIdle /\ HeapIdle /\ BfsIdle /\ DfsInit
                /\ CtorIdle /\ client = "dfs"
NextDfs == DfsAddVertex \/ DfsAddEdge \/ DfsRemoveVertex \/ DfsStateCreate \/ DfsRun
                \/ TopoSort
SpecDfs == InitDfs /\ [][NextDfs]_vars

InitCtor == PoolIdle /\ StackIdle /\ QueueIdle /\ HeapIdle /\ GraphIdle /\ BfsIdle /\ DfsIdle
                /\ CtorInit /\ client = "ctor"
NextCtor == CtorPoolComputeBufferSize \/ CtorPoolCreate
                \/ CtorStackComputeBufferSize \/ CtorStackCreate
                \/ CtorQueueComputeBufferSize \/ CtorQueueCreate
                \/ CtorHeapComputeBufferSize \/ CtorHeapCreate
                \/ CtorGraphComputeBufferSize \/ CtorGraphCreate
SpecCtor == InitCtor /\ [][NextCtor]_vars

\* One container at a time, whichever the client works with.
InitContainers == InitPool \/ InitStack \/ InitQueue \/ InitHeap \/ InitGraph
NextContainers == \/ client = "pool" /\ PoolAlloc
                  \/ client = "pool" /\ PoolFree
                  \/ client = "pool" /\ PoolFreeForeign
                  \/ client = "pool" /\ PoolWrite
                  \/ client = "stack" /\ StackPush
                  \/ client = "stack" /\ StackPop
                  \/ client = "stack" /\ StackResize
                  \/ client = "queue" /\ QueueInsert
                  \/ client = "queue" /\ QueueRemove
                  \/ client = "heap" /\ HeapInsert
                  \/ client = "heap" /\ HeapPeek
                  \/ client = "heap" /\ HeapPop
                  \/ client = "graph" /\ GraphAddVertex
                  \/ client = "graph" /\ GraphRemoveVertex
                  \/ client = "graph" /\ GraphAddEdge
                  \/ client = "graph" /\ GraphRemoveEdge
                  \/ client = "graph" /\ GraphSetVertexData
SpecContainers == InitContainers /\ [][NextContainers]_vars

====
